---- MODULE Spec2Model ----
(***************************************************************************)
(* Verification model of radiant-mcp-server's transaction builder          *)
(* (src/src/tx-builder.ts): coin selection, transaction assembly, the      *)
(* Glyph commit/reveal mint, token transfer and burn, and the plain send   *)
(* operations, running against the ElectrumX indexer and the signer.       *)
(***************************************************************************)
EXTENDS FiniteSets, Integers, Sequences, TLC

VARIABLES
    ledger,   \* node side: the unspent outputs of fromAddress, in report order
    view,     \* indexer side: what listUnspent(scripthash) currently answers
    calls,    \* per invocation: operation, parameters, position and locals
    wire,     \* per invocation: the collaborator calls made and their answers
    coin,     \* harness of the pure selectCoins: its inputs and its answer
    sdk       \* the wallet, agent or channel object under test and its inputs

vars == <<ledger, view, calls, wire, coin, sdk>>

\* ------------------------------------------------------------------------
\* Program constants (tx-builder.ts, "Constants")
\* ------------------------------------------------------------------------
FEE_PER_BYTE == 1
DUST_SATOSHIS == 546
P2PKH_INPUT_SIZE == 148
P2PKH_OUTPUT_SIZE == 34
OP_RETURN_OVERHEAD == 9
TX_OVERHEAD == 10

\* commitScript.length: OP_FALSE OP_RETURN <push 37> gly(3) v(1) flags(1) hash(32)
commitOpReturnSize == 40

\* ------------------------------------------------------------------------
\* Bounds of the model
\* ------------------------------------------------------------------------
MaxUtxos == 3        \* longest UTXO list handed to the selectCoins harness
MaxLedger == 2       \* most UTXOs the address holds when the operations start

\* ------------------------------------------------------------------------
\* Helpers on sequences
\* ------------------------------------------------------------------------
RECURSIVE SumValues(_)
SumValues(us) ==
    IF us = <<>> THEN 0 ELSE us[1].value + SumValues(Tail(us))

RECURSIVE SumSizes(_)
SumSizes(ss) ==
    IF ss = <<>> THEN 0 ELSE (OP_RETURN_OVERHEAD + ss[1]) + SumSizes(Tail(ss))

\* ------------------------------------------------------------------------
\* estimateTxSize (tx-builder.ts 227-239)
\* ------------------------------------------------------------------------
estimateTxSize(inputCount, outputCount, opReturnSizes) ==
    TX_OVERHEAD
      + inputCount * P2PKH_INPUT_SIZE
      + outputCount * P2PKH_OUTPUT_SIZE
      + SumSizes(opReturnSizes)

\* ------------------------------------------------------------------------
\* [...utxos].sort((a, b) => b.value - a.value): a stable descending sort
\* ------------------------------------------------------------------------
RECURSIVE InsertDesc(_, _)
InsertDesc(u, sorted) ==
    IF sorted = <<>> THEN <<u>>
    ELSE IF u.value > sorted[1].value THEN <<u>> \o sorted
         ELSE <<sorted[1]>> \o InsertDesc(u, Tail(sorted))

RECURSIVE SortDescFrom(_, _)
SortDescFrom(us, acc) ==
    IF us = <<>> THEN acc
    ELSE SortDescFrom(Tail(us), InsertDesc(us[1], acc))

SortDescUnsorted(us) == us

SortDesc(us) == SortDescFrom(us, <<>>)

\* ------------------------------------------------------------------------
\* selectCoins (tx-builder.ts 245-271)
\* ------------------------------------------------------------------------
RECURSIVE SelectLoop(_, _, _, _, _, _, _, _)
\* the for-loop of lines 256-261, entered at element i of the sorted list
SelectLoop(sorted, i, selected, totalIn, targetSatoshis, feePerByte, outputCount, opReturnSizes) ==
    IF i > Len(sorted) THEN [selected |-> selected, totalIn |-> totalIn]
    ELSE LET sel2 == Append(selected, sorted[i])
             tot2 == totalIn + sorted[i].value
             fee  == estimateTxSize(Len(sel2), outputCount + 1, opReturnSizes) * feePerByte
         IN IF tot2 >= targetSatoshis + fee
            THEN [selected |-> sel2, totalIn |-> tot2]
            ELSE SelectLoop(sorted, i + 1, sel2, tot2, targetSatoshis, feePerByte,
                            outputCount, opReturnSizes)

RECURSIVE SelectLoopNoBreak(_, _, _, _, _, _, _, _)
\* the loop without its break: it always takes every UTXO
SelectLoopNoBreak(sorted, i, selected, totalIn, targetSatoshis, feePerByte, outputCount, opReturnSizes) ==
    IF i > Len(sorted) THEN [selected |-> selected, totalIn |-> totalIn]
    ELSE SelectLoopNoBreak(sorted, i + 1, Append(selected, sorted[i]),
                           totalIn + sorted[i].value, targetSatoshis, feePerByte,
                           outputCount, opReturnSizes)

selectCoinsWith(loopResult, targetSatoshis, feePerByte, outputCount, opReturnSizes) ==
    LET fee == estimateTxSize(Len(loopResult.selected), outputCount + 1, opReturnSizes)
                 * feePerByte
    IN IF loopResult.totalIn < targetSatoshis + fee
       THEN [ok |-> FALSE, error |-> "Insufficient funds",
             selected |-> <<>>, totalIn |-> 0,
             need |-> targetSatoshis + fee, have |-> loopResult.totalIn]
       ELSE [ok |-> TRUE, error |-> "none",
             selected |-> loopResult.selected, totalIn |-> loopResult.totalIn,
             need |-> targetSatoshis + fee, have |-> loopResult.totalIn]

selectCoinsAll(utxos, targetSatoshis, feePerByte, outputCount, opReturnSizes) ==
    selectCoinsWith(
        SelectLoopNoBreak(SortDesc(utxos), 1, <<>>, 0, targetSatoshis, feePerByte,
                          outputCount, opReturnSizes),
        targetSatoshis, feePerByte, outputCount, opReturnSizes)

selectCoins(utxos, targetSatoshis, feePerByte, outputCount, opReturnSizes) ==
    selectCoinsWith(
        SelectLoop(SortDesc(utxos), 1, <<>>, 0, targetSatoshis, feePerByte,
                   outputCount, opReturnSizes),
        targetSatoshis, feePerByte, outputCount, opReturnSizes)

\* ------------------------------------------------------------------------
\* Transaction ids, outpoints, outputs
\* ------------------------------------------------------------------------
\* A txid is the hash of the transaction it names; the model keeps the hashed
\* content, so that equal transactions have equal ids and different ones differ.
Genesis(n) == [g |-> n, ins |-> <<>>, outs |-> <<>>]

NoTxid == Genesis(0)

Outpoint(u) == [tx_hash |-> u.tx_hash, tx_pos |-> u.tx_pos]

Outpoints(us) == [i \in 1..Len(us) |-> Outpoint(us[i])]

TxidOf(rawTx) == [g |-> 0, ins |-> Outpoints(rawTx.ins), outs |-> rawTx.outs]

NoScript == [kind |-> "none", size |-> 0, data |-> <<>>]

AddressOutput(address, satoshis) ==
    [address |-> address, script |-> NoScript, satoshis |-> satoshis]

ScriptOutput(script, satoshis) ==
    [address |-> "none", script |-> script, satoshis |-> satoshis]

RECURSIVE SumSatoshis(_)
SumSatoshis(outs) ==
    IF outs = <<>> THEN 0 ELSE outs[1].satoshis + SumSatoshis(Tail(outs))

RECURSIVE AddressOutputs(_)
AddressOutputs(outs) ==
    IF outs = <<>> THEN <<>>
    ELSE IF outs[1].address # "none" THEN <<outs[1]>> \o AddressOutputs(Tail(outs))
         ELSE AddressOutputs(Tail(outs))

RECURSIVE ScriptSizes(_)
ScriptSizes(outs) ==
    IF outs = <<>> THEN <<>>
    ELSE IF outs[1].address = "none" THEN <<outs[1].script.size>> \o ScriptSizes(Tail(outs))
         ELSE ScriptSizes(Tail(outs))

\* ------------------------------------------------------------------------
\* buildAndSign (tx-builder.ts 277-332)
\* ------------------------------------------------------------------------
\* `signer` is what the signing library answers for this key and skeleton:
\* "ok", or the error it throws (lines 285, 320, 322).  The library adds the
\* change output last (tx.change, line 316) when the value left after the fee
\* at feePerByte (line 317) is no dust, and throws when the outputs exceed the
\* inputs.
NoRawTx == [ins |-> <<>>, outs |-> <<>>]

NoBuild ==
    [ok |-> FALSE, error |-> "none", txid |-> NoTxid, rawTx |-> NoRawTx,
     fee |-> 0, inputCount |-> 0, outputCount |-> 0]

ChangeOf(utxos, outputs, feePerByte) ==
    (SumValues(utxos) - SumSatoshis(outputs))
      - estimateTxSize(Len(utxos), Len(AddressOutputs(outputs)) + 1, ScriptSizes(outputs))
          * feePerByte

buildAndSignTo(utxos, fromAddress, outputs, changeAddress, signer, feePerByte, change) ==
    LET unspent == SumValues(utxos) - SumSatoshis(outputs)
        outs    == IF change >= DUST_SATOSHIS
                   THEN Append(outputs, AddressOutput(changeAddress, change))
                   ELSE outputs
        rawTx   == [ins |-> utxos, outs |-> outs]
    IN IF signer # "ok" THEN [NoBuild EXCEPT !.error = signer]
       ELSE IF unspent < 0 THEN [NoBuild EXCEPT !.error = "Invalid outputs amount sum"]
       ELSE [ok |-> TRUE, error |-> "none", txid |-> TxidOf(rawTx), rawTx |-> rawTx,
             fee |-> unspent - (IF change >= DUST_SATOSHIS THEN change ELSE 0),
             inputCount |-> Len(utxos), outputCount |-> Len(outs)]

buildAndSign(utxos, fromAddress, outputs, changeAddress, signer, feePerByte) ==
    buildAndSignTo(utxos, fromAddress, outputs, changeAddress, signer, feePerByte,
                   ChangeOf(utxos, outputs, feePerByte))

\* ------------------------------------------------------------------------
\* Token references: "<txid>_<vout>", kept as the list of its "_"-separated
\* fields; a vout field that is no decimal number parses to NaN
\* ------------------------------------------------------------------------
NaN == 0 - 1

MakeTokenRef(txid, vout) == <<txid, vout>>

\* const [refTxid, refVoutStr] = tokenRef.split("_"); parseInt(refVoutStr ?? "0", 10)
ParseTokenRef(tokenRef) ==
    [refTxid |-> tokenRef[1],
     refVout |-> IF Len(tokenRef) >= 2 THEN tokenRef[2] ELSE 0]

IsTokenUtxo(u, ref) == u.tx_hash = ref.refTxid /\ u.tx_pos = ref.refVout

RECURSIVE FindToken(_, _)
\* allUtxos.find(...): the first match, or <<>> for undefined
FindToken(us, ref) ==
    IF us = <<>> THEN <<>>
    ELSE IF IsTokenUtxo(us[1], ref) THEN <<us[1]>> ELSE FindToken(Tail(us), ref)

FeeUtxosKeepAll(us, ref) == us

RECURSIVE FeeUtxos(_, _)
\* allUtxos.filter(u => !(match))
FeeUtxos(us, ref) ==
    IF us = <<>> THEN <<>>
    ELSE IF IsTokenUtxo(us[1], ref) THEN FeeUtxos(Tail(us), ref)
         ELSE <<us[1]>> \o FeeUtxos(Tail(us), ref)

\* ------------------------------------------------------------------------
\* The synchronous part of each operation between the answer of listUnspent
\* and the call of buildAndSign: which inputs and outputs it hands over
\* ------------------------------------------------------------------------
PlanError(e) == [error |-> e, inputs |-> <<>>, outputs |-> <<>>]

Plan(inputs, outputs) == [error |-> "none", inputs |-> inputs, outputs |-> outputs]

RECURSIVE ToOutputs(_)
\* params.outputs.map(o => ({address: o.address, satoshis: o.satoshis}))
ToOutputs(os) ==
    IF os = <<>> THEN <<>>
    ELSE <<AddressOutput(os[1].address, os[1].satoshis)>> \o ToOutputs(Tail(os))

\* sendRxd (342-371), lines 351-367
sendRxd(utxos, p) ==
    IF utxos = <<>> THEN PlanError("No UTXOs available")
    ELSE LET s == selectCoins(utxos, p.satoshis, p.feePerByte, 1, <<>>)
         IN IF ~s.ok THEN PlanError(s.error)
            ELSE Plan(s.selected, <<AddressOutput(p.toAddress, p.satoshis)>>)

\* sendBatch (705-737), lines 714-733; buildTransaction (629-680), lines 640-659
sendOutputs(utxos, p) ==
    IF utxos = <<>> THEN PlanError("No UTXOs available")
    ELSE LET s == selectCoins(utxos, SumSatoshis(p.outputs), p.feePerByte,
                              Len(p.outputs), <<>>)
         IN IF ~s.ok THEN PlanError(s.error)
            ELSE Plan(s.selected, ToOutputs(p.outputs))

sendBatch(utxos, p) == sendOutputs(utxos, p)

buildTransaction(utxos, p) == sendOutputs(utxos, p)

transferTokenNoCheck(allUtxos, p) ==
    LET ref == ParseTokenRef(p.tokenRef)
        s   == selectCoins(FeeUtxos(allUtxos, ref),
                           estimateTxSize(2, 2, <<>>) * p.feePerByte + DUST_SATOSHIS,
                           p.feePerByte, 2, <<>>)
    IN IF ~s.ok THEN PlanError(s.error)
       ELSE Plan(FindToken(allUtxos, ref) \o s.selected,
                 <<AddressOutput(p.toAddress, p.amount)>>)

\* transferToken (507-563), lines 515-559
transferToken(allUtxos, p) ==
    LET ref          == ParseTokenRef(p.tokenRef)
        found        == FindToken(allUtxos, ref)
        feeUtxos     == FeeUtxos(allUtxos, ref)
        estimatedFee == estimateTxSize(2, 2, <<>>) * p.feePerByte
    IN IF found = <<>> THEN PlanError("Token UTXO not found")
       ELSE LET tokenUtxo == found[1]
            IN IF tokenUtxo.value >= p.amount + estimatedFee + DUST_SATOSHIS
               THEN Plan(<<tokenUtxo>>, <<AddressOutput(p.toAddress, p.amount)>>)
               ELSE LET needed == estimatedFee + DUST_SATOSHIS
                        s      == selectCoins(feeUtxos, needed, p.feePerByte, 2, <<>>)
                    IN IF ~s.ok THEN PlanError(s.error)
                       ELSE Plan(<<tokenUtxo>> \o s.selected,
                                 <<AddressOutput(p.toAddress, p.amount)>>)

\* buildOpReturnScript([burnMetadata]) with {p: [6], ref: tokenRef, amount}
burnOpReturnSize == 100

BurnScript(p) ==
    [kind |-> "burn", size |-> burnOpReturnSize, data |-> <<p.tokenRef, p.amount>>]

burnTokenNoCheck(allUtxos, p) ==
    LET ref == ParseTokenRef(p.tokenRef)
        s   == selectCoins(FeeUtxos(allUtxos, ref),
                           estimateTxSize(2, 1, <<>>) * p.feePerByte + DUST_SATOSHIS,
                           p.feePerByte, 1, <<>>)
    IN IF ~s.ok THEN PlanError(s.error)
       ELSE Plan(FindToken(allUtxos, ref) \o s.selected,
                 <<ScriptOutput(BurnScript(p), 0)>>)

\* burnToken (748-806), lines 756-802
burnToken(allUtxos, p) ==
    LET ref          == ParseTokenRef(p.tokenRef)
        found        == FindToken(allUtxos, ref)
        feeUtxos     == FeeUtxos(allUtxos, ref)
        estimatedFee == estimateTxSize(2, 1, <<>>) * p.feePerByte
    IN IF found = <<>> THEN PlanError("Token UTXO not found")
       ELSE LET tokenUtxo == found[1]
            IN IF tokenUtxo.value >= estimatedFee + DUST_SATOSHIS
               THEN Plan(<<tokenUtxo>>, <<ScriptOutput(BurnScript(p), 0)>>)
               ELSE LET needed == estimatedFee + DUST_SATOSHIS
                        s      == selectCoins(feeUtxos, needed, p.feePerByte, 1, <<>>)
                    IN IF ~s.ok THEN PlanError(s.error)
                       ELSE Plan(<<tokenUtxo>> \o s.selected,
                                 <<ScriptOutput(BurnScript(p), 0)>>)

\* revealScript.length for the metadata the model mints with
revealOpReturnSize == 80

CommitScript(p) ==
    [kind |-> "commit", size |-> commitOpReturnSize, data |-> <<p.metadata>>]

RevealScript(p) ==
    [kind |-> "reveal", size |-> revealOpReturnSize, data |-> <<p.metadata>>]

\* the first argument whatever the second
MaxFirst(a, b) == a

Max(a, b) == IF a >= b THEN a ELSE b

\* createFungibleToken (382-476), step 1: lines 410-427
createFungibleTokenCommit(utxos1, p) ==
    IF utxos1 = <<>> THEN PlanError("No UTXOs available for commit tx")
    ELSE LET s == selectCoins(utxos1, DUST_SATOSHIS, p.feePerByte, 1,
                              <<commitOpReturnSize>>)
         IN IF ~s.ok THEN PlanError(s.error)
            ELSE Plan(s.selected, <<ScriptOutput(CommitScript(p), 0)>>)

\* createFungibleToken, step 2: lines 439-462
createFungibleTokenReveal(utxos2, p) ==
    IF utxos2 = <<>> THEN PlanError("No UTXOs available for reveal tx")
    ELSE LET tokenSatoshis == Max(p.supply, DUST_SATOSHIS)
             s == selectCoins(utxos2, tokenSatoshis, p.feePerByte, 2,
                              <<revealOpReturnSize>>)
         IN IF ~s.ok THEN PlanError(s.error)
            ELSE Plan(s.selected,
                      <<AddressOutput(p.fromAddress, tokenSatoshis),
                        ScriptOutput(RevealScript(p), 0)>>)

\* ------------------------------------------------------------------------
\* State of the invocations and of the collaborators
\* ------------------------------------------------------------------------
Calls == {"c1", "c2"}

FromAddress == "A"

SingleOps == {"sendRxd", "sendBatch", "buildTransaction", "transferToken", "burnToken"}

NoParams ==
    [fromAddress |-> FromAddress, changeAddress |-> FromAddress, toAddress |-> "none",
     satoshis |-> 0, outputs |-> <<>>, tokenRef |-> <<NoTxid>>, amount |-> 0,
     supply |-> 0, metadata |-> "none", feePerByte |-> FEE_PER_BYTE, dryRun |-> "omitted"]

NoResult ==
    [txid |-> NoTxid, rawTx |-> NoRawTx, fee |-> 0, inputCount |-> 0, outputCount |-> 0,
     broadcasted |-> FALSE, commitTxid |-> NoTxid, commitRawTx |-> NoRawTx,
     commitFee |-> 0, tokenRef |-> <<NoTxid>>]

NoCall ==
    [op |-> "none", pc |-> "Idle", p |-> NoParams, utxos |-> <<>>,
     signer |-> "none", commitResult |-> NoBuild, commitTxid |-> NoTxid,
     built |-> NoBuild, result |-> NoResult, error |-> "none"]

NoSdk == [kind |-> "none"]

NoCoin ==
    [utxos |-> <<>>, targetSatoshis |-> 0, feePerByte |-> 0, outputCount |-> 0,
     opReturnSizes |-> <<>>, done |-> FALSE, result |-> selectCoinsWith(
         [selected |-> <<>>, totalIn |-> 0], 0, 0, 0, <<>>)]

\* what the indexer and the signer can answer besides a result
IndexerErrors == {"ElectrumX request timeout"}
BroadcastErrors == {"Transaction rejected by mempool"}
SignerAnswers == {"ok", "Invalid WIF"}

Request(method, rawTx) == [method |-> method, rawTx |-> rawTx, status |-> "pending"]

Answered(w, status) == [w EXCEPT ![Len(w)].status = status]

\* UTXO lists: the i-th UTXO is output 0 of the i-th funding transaction
MkUtxos(vals) ==
    [i \in 1..Len(vals) |-> [tx_hash |-> Genesis(i), tx_pos |-> 0, value |-> vals[i]]]

SeqsUpTo(S, n) == UNION {[1..k -> S] : k \in 0..n}

LedgerValues == {600, 900, 3000}

\* ------------------------------------------------------------------------
\* The node: which broadcasts it accepts, and what they do to the UTXO set
\* ------------------------------------------------------------------------
InLedger(u, l) == \E i \in 1..Len(l) : Outpoint(l[i]) = Outpoint(u)

NodeAccepts(rawTx, l) ==
    /\ rawTx.ins # <<>>
    /\ \A i \in 1..Len(rawTx.ins) : InLedger(rawTx.ins[i], l)
    /\ \A i, j \in 1..Len(rawTx.ins) :
           Outpoint(rawTx.ins[i]) = Outpoint(rawTx.ins[j]) => i = j
    /\ SumValues(rawTx.ins) >= SumSatoshis(rawTx.outs)

RECURSIVE Unspent(_, _)
Unspent(l, rawTx) ==
    IF l = <<>> THEN <<>>
    ELSE IF InLedger(l[1], rawTx.ins) THEN Unspent(Tail(l), rawTx)
         ELSE <<l[1]>> \o Unspent(Tail(l), rawTx)

RECURSIVE Received(_, _, _)
\* the outputs of rawTx, from position i on, that pay address a
Received(rawTx, i, a) ==
    IF i > Len(rawTx.outs) THEN <<>>
    ELSE IF rawTx.outs[i].address = a
         THEN <<[tx_hash |-> TxidOf(rawTx), tx_pos |-> i - 1,
                 value |-> rawTx.outs[i].satoshis]>> \o Received(rawTx, i + 1, a)
         ELSE Received(rawTx, i + 1, a)

ApplyTx(l, rawTx) == Unspent(l, rawTx) \o Received(rawTx, 1, FromAddress)

\* ------------------------------------------------------------------------
\* Parameters the callers pass (the tool layer admits positive integers only)
\* ------------------------------------------------------------------------
Pay(address, satoshis) == [address |-> address, satoshis |-> satoshis]

SendAmounts == {100, 1000}

OutputLists == {<<>>, <<Pay("B", 1000), Pay("A", 100)>>}

\* references a caller may hold: to funding outputs, to an output that does not
\* exist, without a vout field, with a vout that is no number, and to the tokens
\* minted so far
TokenRefs(cs) ==
    {MakeTokenRef(Genesis(1), 0), <<Genesis(1)>>, MakeTokenRef(Genesis(1), 1),
     MakeTokenRef(Genesis(2), 0), MakeTokenRef(Genesis(2), NaN)}
      \cup {cs[d].result.tokenRef :
               d \in {x \in Calls : cs[x].op = "createFungibleToken" /\ cs[x].pc = "Complete"}}

ParamsOf(op, cs) ==
    CASE op = "sendRxd" ->
           {[NoParams EXCEPT !.toAddress = "B", !.satoshis = a] : a \in SendAmounts}
      [] op = "sendBatch" ->
           {[NoParams EXCEPT !.outputs = os] : os \in OutputLists}
      [] op = "buildTransaction" ->
           {[NoParams EXCEPT !.outputs = <<Pay("B", 1000)>>, !.dryRun = d] :
               d \in {"omitted", "true", "false"}}
             \cup {[NoParams EXCEPT !.dryRun = "false"]}
      [] op = "transferToken" ->
           {[NoParams EXCEPT !.toAddress = "B", !.tokenRef = r, !.amount = 1] :
               r \in TokenRefs(cs)}
             \cup {[NoParams EXCEPT !.toAddress = "B", !.tokenRef = r, !.amount = 1000] :
                      r \in {MakeTokenRef(Genesis(1), 0), MakeTokenRef(Genesis(2), 0)}}
             \cup {[NoParams EXCEPT !.toAddress = "B", !.amount = 3500,
                                     !.tokenRef = MakeTokenRef(Genesis(1), 0)]}
      [] op = "burnToken" ->
           {[NoParams EXCEPT !.tokenRef = r, !.amount = 1] : r \in TokenRefs(cs)}
      [] op = "createFungibleToken" ->
           {[NoParams EXCEPT !.supply = n, !.metadata = "m1"] : n \in {1, 1000}}

PlanOf(op, utxos, p) ==
    CASE op = "sendRxd" -> sendRxd(utxos, p)
      [] op = "sendBatch" -> sendBatch(utxos, p)
      [] op = "buildTransaction" -> buildTransaction(utxos, p)
      [] op = "transferToken" -> transferToken(utxos, p)
      [] op = "burnToken" -> burnToken(utxos, p)

\* ------------------------------------------------------------------------
\* Actions
\* ------------------------------------------------------------------------
\* a failure reported under one wrapping error instead of the error raised
FailedWrapped(c, e) ==
    [calls EXCEPT ![c].pc = "Failed", ![c].error = "BroadcastRejected"]

Failed(c, e) == [calls EXCEPT ![c].pc = "Failed", ![c].error = e]

\* the body of an operation up to its first await: sendBatch (710) and
\* buildTransaction (638) refuse an empty output list, every operation then
\* awaits listUnspent (350, 409, 519, 642, 716, 759)
Begin(c, op, p) ==
    /\ calls[c].op = "none"
    /\ c = "c2" => calls["c1"].op # "none"    \* invocations are numbered as they arrive
    /\ IF op \in {"sendBatch", "buildTransaction"} /\ p.outputs = <<>>
       THEN /\ calls' = [calls EXCEPT ![c].op = op, ![c].p = p, ![c].pc = "Failed",
                                       ![c].error = "At least one output required"]
            /\ UNCHANGED wire
       ELSE /\ calls' = [calls EXCEPT ![c].op = op, ![c].p = p]
            /\ wire' = [wire EXCEPT ![c] = <<Request("listUnspent", NoRawTx)>>]
    /\ UNCHANGED <<ledger, view, coin, sdk>>

InvokeOp(c) ==
    \E op \in SingleOps : \E p \in ParamsOf(op, calls) : Begin(c, op, p)

InvokeMint(c) ==
    \E p \in ParamsOf("createFungibleToken", calls) : Begin(c, "createFungibleToken", p)

BuildResultOf(b, txid, broadcasted) ==
    [NoResult EXCEPT !.txid = txid, !.rawTx = b.rawTx, !.fee = b.fee,
                     !.inputCount = b.inputCount, !.outputCount = b.outputCount,
                     !.broadcasted = broadcasted]

\* tx.serialize (322) is the library's: for an address output below the dust
\* threshold it either serializes the transaction or throws its dust error
DustError == "Dust amount detected in one output"

HasDustOutput(outputs) ==
    \E i \in 1..Len(outputs) :
        outputs[i].address # "none" /\ outputs[i].satoshis < DUST_SATOSHIS

LibraryAnswers(outputs) ==
    SignerAnswers \cup (IF HasDustOutput(outputs) THEN {DustError} ELSE {})

\* a dry run only when the caller passes dryRun = true
IsDryRunOnlyWhenTrue(p) == p.dryRun = "true"

\* buildTransaction 637: const dryRun = params.dryRun !== false
IsDryRun(p) == p.dryRun # "false"

\* sendRxd 350-369, sendBatch 716-735, buildTransaction 642-678,
\* transferToken 519-561, burnToken 759-804: from the answer of listUnspent to
\* the call of broadcastTransaction (or to the dry-run return)
OpBuild(c) ==
    LET cs == calls[c] IN
    /\ cs.op \in SingleOps /\ cs.pc = "Idle"
    /\ \/ \E e \in IndexerErrors :
             /\ calls' = Failed(c, e)
             /\ wire' = [wire EXCEPT ![c] = Answered(@, e)]
       \/ \E signer \in SignerAnswers \cup {DustError} :
             LET plan == PlanOf(cs.op, view, cs.p)
                 b    == buildAndSign(plan.inputs, cs.p.fromAddress, plan.outputs,
                                      cs.p.changeAddress, signer, cs.p.feePerByte)
             IN /\ signer \in LibraryAnswers(plan.outputs)
                /\ IF plan.error # "none"
                   THEN /\ calls' = [Failed(c, plan.error) EXCEPT ![c].utxos = view]
                        /\ wire' = [wire EXCEPT ![c] = Answered(@, "ok")]
                   ELSE IF ~b.ok
                   THEN /\ calls' = [Failed(c, b.error) EXCEPT ![c].utxos = view, ![c].signer = signer]
                        /\ wire' = [wire EXCEPT ![c] = Answered(@, "ok")]
                   ELSE IF cs.op = "buildTransaction" /\ IsDryRun(cs.p)
                   THEN /\ calls' = [calls EXCEPT ![c].utxos = view, ![c].signer = signer, ![c].built = b,
                                                   ![c].pc = "Complete",
                                                   ![c].result = BuildResultOf(b, b.txid, FALSE)]
                        /\ wire' = [wire EXCEPT ![c] = Answered(@, "ok")]
                   ELSE /\ calls' = [calls EXCEPT ![c].utxos = view, ![c].signer = signer, ![c].built = b,
                                                   ![c].pc = "TxBuilt"]
                        /\ wire' = [wire EXCEPT ![c] =
                                       Append(Answered(@, "ok"), Request("broadcast", b.rawTx))]
    /\ UNCHANGED <<ledger, view, coin, sdk>>

\* the answer of broadcastTransaction and the return (369-370, 561-562,
\* 678-679, 735-736, 804-805)
OpBroadcast(c) ==
    LET cs == calls[c] IN
    /\ cs.op \in SingleOps /\ cs.pc = "TxBuilt"
    /\ \/ /\ NodeAccepts(cs.built.rawTx, ledger)
          /\ ledger' = ApplyTx(ledger, cs.built.rawTx)
          /\ calls' = [calls EXCEPT ![c].pc = "Complete",
                          ![c].result = BuildResultOf(cs.built, TxidOf(cs.built.rawTx), TRUE)]
          /\ wire' = [wire EXCEPT ![c] = Answered(@, "ok")]
       \/ \E e \in BroadcastErrors :
             /\ calls' = Failed(c, e)
             /\ wire' = [wire EXCEPT ![c] = Answered(@, e)]
             /\ UNCHANGED ledger
    /\ UNCHANGED <<view, coin, sdk>>

\* the commit step with broadcastTransaction called but not awaited: the reveal
\* query goes out while the commit broadcast is still in flight
MintCommitBuildNoAwait(c) ==
    LET cs == calls[c] IN
    /\ cs.op = "createFungibleToken" /\ cs.pc = "Idle"
    /\ \/ \E e \in IndexerErrors :
             /\ calls' = Failed(c, e)
             /\ wire' = [wire EXCEPT ![c] = Answered(@, e)]
       \/ LET plan == createFungibleTokenCommit(view, cs.p)
               b    == buildAndSign(plan.inputs, cs.p.fromAddress, plan.outputs,
                                    cs.p.changeAddress, "ok", cs.p.feePerByte)
           IN IF plan.error # "none"
              THEN /\ calls' = [Failed(c, plan.error) EXCEPT ![c].utxos = view]
                   /\ wire' = [wire EXCEPT ![c] = Answered(@, "ok")]
              ELSE /\ calls' = [calls EXCEPT ![c].utxos = view, ![c].commitResult = b,
                                              ![c].commitTxid = b.txid,
                                              ![c].pc = "CommitBroadcast"]
                   /\ wire' = [wire EXCEPT ![c] =
                                  Answered(@, "ok") \o <<Request("broadcast", b.rawTx),
                                                         Request("listUnspent", NoRawTx)>>]
    /\ UNCHANGED <<ledger, view, coin, sdk>>

RECURSIVE NotHeld(_, _)
\* the UTXOs of us that no commit transaction of another invocation spends
NotHeld(us, c) ==
    IF us = <<>> THEN <<>>
    ELSE IF \E d \in Calls \ {c} : InLedger(us[1], calls[d].commitResult.rawTx.ins)
         THEN NotHeld(Tail(us), c)
         ELSE <<us[1]>> \o NotHeld(Tail(us), c)

\* the commit step with a reservation: UTXOs another invocation has already
\* selected are left out of the coin selection
MintCommitBuildReserving(c) ==
    LET cs == calls[c] IN
    /\ cs.op = "createFungibleToken" /\ cs.pc = "Idle"
    /\ \/ \E e \in IndexerErrors :
             /\ calls' = Failed(c, e)
             /\ wire' = [wire EXCEPT ![c] = Answered(@, e)]
       \/ LET plan == createFungibleTokenCommit(NotHeld(view, c), cs.p)
               b    == buildAndSign(plan.inputs, cs.p.fromAddress, plan.outputs,
                                    cs.p.changeAddress, "ok", cs.p.feePerByte)
           IN IF plan.error # "none"
              THEN /\ calls' = [Failed(c, plan.error) EXCEPT ![c].utxos = view]
                   /\ wire' = [wire EXCEPT ![c] = Answered(@, "ok")]
              ELSE /\ calls' = [calls EXCEPT ![c].utxos = view, ![c].commitResult = b,
                                              ![c].pc = "CommitBuilt"]
                   /\ wire' = [wire EXCEPT ![c] =
                                  Append(Answered(@, "ok"), Request("broadcast", b.rawTx))]
    /\ UNCHANGED <<ledger, view, coin, sdk>>

\* createFungibleToken 409-429: the answer of the first listUnspent, the commit
\* transaction, the call of broadcastTransaction
MintCommitBuild(c) ==
    LET cs == calls[c] IN
    /\ cs.op = "createFungibleToken" /\ cs.pc = "Idle"
    /\ \/ \E e \in IndexerErrors :
             /\ calls' = Failed(c, e)
             /\ wire' = [wire EXCEPT ![c] = Answered(@, e)]
       \/ \E signer \in SignerAnswers :
             LET plan == createFungibleTokenCommit(view, cs.p)
                 b    == buildAndSign(plan.inputs, cs.p.fromAddress, plan.outputs,
                                      cs.p.changeAddress, signer, cs.p.feePerByte)
             IN IF plan.error # "none"
                THEN /\ calls' = [Failed(c, plan.error) EXCEPT ![c].utxos = view]
                     /\ wire' = [wire EXCEPT ![c] = Answered(@, "ok")]
                ELSE IF ~b.ok
                THEN /\ calls' = [Failed(c, b.error) EXCEPT ![c].utxos = view, ![c].signer = signer]
                     /\ wire' = [wire EXCEPT ![c] = Answered(@, "ok")]
                ELSE /\ calls' = [calls EXCEPT ![c].utxos = view, ![c].signer = signer, ![c].commitResult = b,
                                                ![c].pc = "CommitBuilt"]
                     /\ wire' = [wire EXCEPT ![c] =
                                    Append(Answered(@, "ok"), Request("broadcast", b.rawTx))]
    /\ UNCHANGED <<ledger, view, coin, sdk>>

\* createFungibleToken 429-438: the answer of the commit broadcast, the reveal
\* script, the call of the second listUnspent
MintCommitBroadcast(c) ==
    LET cs == calls[c] IN
    /\ cs.op = "createFungibleToken" /\ cs.pc = "CommitBuilt"
    /\ \/ /\ NodeAccepts(cs.commitResult.rawTx, ledger)
          /\ ledger' = ApplyTx(ledger, cs.commitResult.rawTx)
          /\ calls' = [calls EXCEPT ![c].pc = "CommitBroadcast",
                          ![c].commitTxid = TxidOf(cs.commitResult.rawTx)]
          /\ wire' = [wire EXCEPT ![c] =
                         Append(Answered(@, "ok"), Request("listUnspent", NoRawTx))]
       \/ \E e \in BroadcastErrors :
             /\ calls' = Failed(c, e)
             /\ wire' = [wire EXCEPT ![c] = Answered(@, e)]
             /\ UNCHANGED ledger
    /\ UNCHANGED <<view, coin, sdk>>

\* the reveal step asking again when the answer does not yet fund the reveal
MintRevealBuildPoll(c) ==
    LET cs == calls[c] IN
    /\ cs.op = "createFungibleToken" /\ cs.pc = "CommitBroadcast"
    /\ \/ \E e \in IndexerErrors :
             /\ calls' = Failed(c, e)
             /\ wire' = [wire EXCEPT ![c] = Answered(@, e)]
       \/ \E signer \in SignerAnswers :
             LET plan == createFungibleTokenReveal(view, cs.p)
                 b    == buildAndSign(plan.inputs, cs.p.fromAddress, plan.outputs,
                                      cs.p.changeAddress, signer, cs.p.feePerByte)
             IN IF plan.error # "none" /\ Len(wire[c]) < 4
                THEN /\ calls' = calls
                     /\ wire' = [wire EXCEPT ![c] =
                                    Append(Answered(@, "ok"), Request("listUnspent", NoRawTx))]
                ELSE IF plan.error # "none"
                THEN /\ calls' = [Failed(c, plan.error) EXCEPT ![c].utxos = view]
                     /\ wire' = [wire EXCEPT ![c] = Answered(@, "ok")]
                ELSE IF ~b.ok
                THEN /\ calls' = [Failed(c, b.error) EXCEPT ![c].utxos = view, ![c].signer = signer]
                     /\ wire' = [wire EXCEPT ![c] = Answered(@, "ok")]
                ELSE /\ calls' = [calls EXCEPT ![c].utxos = view, ![c].signer = signer, ![c].built = b,
                                                ![c].pc = "RevealBuilt"]
                     /\ wire' = [wire EXCEPT ![c] =
                                    Append(Answered(@, "ok"), Request("broadcast", b.rawTx))]
    /\ UNCHANGED <<ledger, view, coin, sdk>>

\* createFungibleToken 438-464: the answer of the second listUnspent, the
\* reveal transaction, the call of broadcastTransaction
MintRevealBuild(c) ==
    LET cs == calls[c] IN
    /\ cs.op = "createFungibleToken" /\ cs.pc = "CommitBroadcast"
    /\ \/ \E e \in IndexerErrors :
             /\ calls' = Failed(c, e)
             /\ wire' = [wire EXCEPT ![c] = Answered(@, e)]
       \/ \E signer \in SignerAnswers :
             LET plan == createFungibleTokenReveal(view, cs.p)
                 b    == buildAndSign(plan.inputs, cs.p.fromAddress, plan.outputs,
                                      cs.p.changeAddress, signer, cs.p.feePerByte)
             IN IF plan.error # "none"
                THEN /\ calls' = [Failed(c, plan.error) EXCEPT ![c].utxos = view]
                     /\ wire' = [wire EXCEPT ![c] = Answered(@, "ok")]
                ELSE IF ~b.ok
                THEN /\ calls' = [Failed(c, b.error) EXCEPT ![c].utxos = view, ![c].signer = signer]
                     /\ wire' = [wire EXCEPT ![c] = Answered(@, "ok")]
                ELSE /\ calls' = [calls EXCEPT ![c].utxos = view, ![c].signer = signer, ![c].built = b,
                                                ![c].pc = "RevealBuilt"]
                     /\ wire' = [wire EXCEPT ![c] =
                                    Append(Answered(@, "ok"), Request("broadcast", b.rawTx))]
    /\ UNCHANGED <<ledger, view, coin, sdk>>

MintResultBadRef(cs, revealTxid) ==
    [NoResult EXCEPT !.commitTxid = cs.commitTxid, !.commitRawTx = cs.commitResult.rawTx,
                     !.commitFee = cs.commitResult.fee, !.txid = revealTxid,
                     !.rawTx = cs.built.rawTx, !.fee = cs.built.fee,
                     !.inputCount = cs.built.inputCount,
                     !.outputCount = cs.built.outputCount, !.broadcasted = TRUE,
                     !.tokenRef = MakeTokenRef(cs.commitTxid, 0)]

\* lines 465-475: tokenRef and the MintResult (txid, rawTx, fee stand for
\* revealTxid, revealRawTx, revealFee)
MintResult(cs, revealTxid) ==
    [NoResult EXCEPT !.commitTxid = cs.commitTxid, !.commitRawTx = cs.commitResult.rawTx,
                     !.commitFee = cs.commitResult.fee, !.txid = revealTxid,
                     !.rawTx = cs.built.rawTx, !.fee = cs.built.fee,
                     !.inputCount = cs.built.inputCount,
                     !.outputCount = cs.built.outputCount, !.broadcasted = TRUE,
                     !.tokenRef = MakeTokenRef(revealTxid, 0)]

\* the reveal broadcast with one retry: a rejected reveal is sent again
MintRevealBroadcastRetry(c) ==
    LET cs == calls[c] IN
    /\ cs.op = "createFungibleToken" /\ cs.pc = "RevealBuilt"
    /\ \/ /\ NodeAccepts(cs.built.rawTx, ledger)
          /\ ledger' = ApplyTx(ledger, cs.built.rawTx)
          /\ calls' = [calls EXCEPT ![c].pc = "Complete",
                          ![c].result = MintResult(cs, TxidOf(cs.built.rawTx))]
          /\ wire' = [wire EXCEPT ![c] = Answered(@, "ok")]
       \/ \E e \in BroadcastErrors :
             /\ IF Len(wire[c]) < 5
                THEN /\ calls' = calls
                     /\ wire' = [wire EXCEPT ![c] =
                                    Append(Answered(@, e), Request("broadcast", cs.built.rawTx))]
                ELSE /\ calls' = Failed(c, e)
                     /\ wire' = [wire EXCEPT ![c] = Answered(@, e)]
             /\ UNCHANGED ledger
    /\ UNCHANGED <<view, coin, sdk>>

\* createFungibleToken 464-475: the answer of the reveal broadcast, tokenRef,
\* the return
MintRevealBroadcast(c) ==
    LET cs == calls[c] IN
    /\ cs.op = "createFungibleToken" /\ cs.pc = "RevealBuilt"
    /\ \/ /\ NodeAccepts(cs.built.rawTx, ledger)
          /\ ledger' = ApplyTx(ledger, cs.built.rawTx)
          /\ calls' = [calls EXCEPT ![c].pc = "Complete",
                          ![c].result = MintResult(cs, TxidOf(cs.built.rawTx))]
          /\ wire' = [wire EXCEPT ![c] = Answered(@, "ok")]
       \/ \E e \in BroadcastErrors :
             /\ calls' = Failed(c, e)
             /\ wire' = [wire EXCEPT ![c] = Answered(@, e)]
             /\ UNCHANGED ledger
    /\ UNCHANGED <<view, coin, sdk>>

\* the indexer catches up with the node (mempool and blocks)
IndexerSync ==
    /\ view # ledger
    /\ view' = ledger
    /\ UNCHANGED <<ledger, calls, wire, coin, sdk>>

\* ------------------------------------------------------------------------
\* Specifications
\* ------------------------------------------------------------------------
InitChain ==
    /\ ledger \in {MkUtxos(vs) : vs \in SeqsUpTo(LedgerValues, MaxLedger)}
    /\ view = ledger
    /\ calls = [c \in Calls |-> NoCall]
    /\ wire = [c \in Calls |-> <<>>]
    /\ coin = NoCoin
    /\ sdk = NoSdk

\* the single-transaction operations, two invocations in flight
Init == InitChain

Next ==
    \/ \E c \in Calls : InvokeOp(c)
    \/ \E c \in Calls : OpBuild(c)
    \/ \E c \in Calls : OpBroadcast(c)
    \/ IndexerSync

Spec == Init /\ [][Next]_vars

\* the commit/reveal mint, two invocations in flight
NextMint ==
    \/ \E c \in Calls : InvokeMint(c)
    \/ \E c \in Calls : MintCommitBuild(c)
    \/ \E c \in Calls : MintCommitBroadcast(c)
    \/ \E c \in Calls : MintRevealBuild(c)
    \/ \E c \in Calls : MintRevealBroadcast(c)
    \/ IndexerSync

SpecMint == InitChain /\ [][NextMint]_vars

\* a mint and one single-transaction operation in flight
NextCore ==
    \/ InvokeMint("c1")
    \/ MintCommitBuild("c1")
    \/ MintCommitBroadcast("c1")
    \/ MintRevealBuild("c1")
    \/ MintRevealBroadcast("c1")
    \/ InvokeOp("c2")
    \/ OpBuild("c2")
    \/ OpBroadcast("c2")
    \/ IndexerSync

SpecCore == InitChain /\ [][NextCore]_vars

\* the pure selectCoins on every input of the bounded sets
CoinValues == {50, 900, 3000, 50000000, 100000000}
CoinTargets == {1, 546, 674, 2800, 10000000}
CoinFeeRates == {FEE_PER_BYTE, 5}
CoinOutputCounts == {1, 2}
CoinOpReturns == {<<>>, <<commitOpReturnSize>>}

InitSelect ==
    /\ ledger = <<>>
    /\ view = <<>>
    /\ calls = [c \in Calls |-> NoCall]
    /\ wire = [c \in Calls |-> <<>>]
    /\ \E vs \in SeqsUpTo(CoinValues, MaxUtxos), t \in CoinTargets, f \in CoinFeeRates,
          n \in CoinOutputCounts, os \in CoinOpReturns :
          coin = [NoCoin EXCEPT !.utxos = MkUtxos(vs), !.targetSatoshis = t,
                                !.feePerByte = f, !.outputCount = n, !.opReturnSizes = os]
    /\ sdk = NoSdk

SelectCoinsCall ==
    /\ ~coin.done
    /\ coin' = [coin EXCEPT !.done = TRUE,
                             !.result = selectCoins(coin.utxos, coin.targetSatoshis,
                                                    coin.feePerByte, coin.outputCount,
                                                    coin.opReturnSizes)]
    /\ UNCHANGED <<ledger, view, calls, wire, sdk>>

NextSelect == SelectCoinsCall

SpecSelect == InitSelect /\ [][NextSelect]_vars

\* ------------------------------------------------------------------------
\* Properties of selectCoins
\* ------------------------------------------------------------------------
RECURSIVE SumOfValues(_)
\* the sum of a list of UTXO values, written independently of the builder
SumOfValues(us) ==
    IF Len(us) = 0 THEN 0 ELSE us[Len(us)].value + SumOfValues(SubSeq(us, 1, Len(us) - 1))

\* target + estimateTxSize(k, outputCount + 1, opReturnSizes) * feePerByte
CoinBound(k) ==
    coin.targetSatoshis
      + (TX_OVERHEAD + k * P2PKH_INPUT_SIZE + (coin.outputCount + 1) * P2PKH_OUTPUT_SIZE
           + SumSizes(coin.opReturnSizes)) * coin.feePerByte

\* the k largest values of the supplied UTXOs add up to at least s
LargestReach(k, s) ==
    \E S \in SUBSET (1..Len(coin.utxos)) :
        /\ Cardinality(S) = k
        /\ \A i \in S, j \in (1..Len(coin.utxos)) \ S :
               coin.utxos[i].value >= coin.utxos[j].value
        /\ SumOfValues(SelectSeq(coin.utxos, LAMBDA u : \E i \in S : coin.utxos[i] = u)) >= s

CoinFailed == coin.done /\ ~coin.result.ok

\* C4 as stated: selectCoins fails with InsufficientFunds exactly when the sum
\* of all supplied UTXO values is less than target + estimateTxSize(n,
\* outputCount+1, opReturnSizes) * feePerByte, n the number of supplied UTXOs.
C4_FailsIffAllBelowBound ==
    coin.done =>
        (~coin.result.ok <=> SumOfValues(coin.utxos) < CoinBound(Len(coin.utxos)))

\* C4 amended: selectCoins fails with InsufficientFunds exactly when no
\* largest-first prefix of the supplied UTXOs (of length 1..n, or the empty
\* list when none is supplied) reaches target + estimateTxSize(k, outputCount+1,
\* opReturnSizes) * feePerByte for its own length k; a failure implies that the
\* sum of all values is below the bound for n, the error carries that bound and
\* that sum, and in every other case it succeeds.
C4_FailsIffNoPrefixReachesBound ==
    coin.done =>
        /\ ~coin.result.ok <=>
              ~\E k \in (IF coin.utxos = <<>> THEN {0} ELSE 1..Len(coin.utxos)) :
                    LargestReach(k, CoinBound(k))
        /\ ~coin.result.ok =>
              /\ coin.result.error = "Insufficient funds"
              /\ SumOfValues(coin.utxos) < CoinBound(Len(coin.utxos))
              /\ coin.result.need = CoinBound(Len(coin.utxos))
              /\ coin.result.have = SumOfValues(coin.utxos)

C4_Witness ==
    /\ CoinFailed
    /\ Len(coin.utxos) >= 2
    /\ SumOfValues(coin.utxos) >= coin.targetSatoshis

\* C5: when selectCoins succeeds, the selection is the shortest prefix of the
\* UTXOs in descending order of value whose total reaches target +
\* estimateTxSize(|selected|, outputCount+1, opReturnSizes) * feePerByte, and
\* totalIn is the sum of the selected values; of 100,000,000 and 50,000,000
\* with target 10,000,000 at feePerByte 1 only the 100,000,000 UTXO is taken.
C5_ShortestLargestFirstPrefix ==
    (coin.done /\ coin.result.ok) =>
        LET sel == coin.result.selected
            n   == Len(sel)
        IN /\ coin.result.totalIn = SumOfValues(sel)
           /\ coin.result.totalIn >= CoinBound(n)
           \* shortest: no shorter prefix reaches its bound
           /\ \A k \in 0..(n - 1) : SumOfValues(SubSeq(sel, 1, k)) < CoinBound(k)
           \* a prefix of the descending order: distinct supplied UTXOs, in
           \* non-increasing value, none left out that is larger than one taken
           /\ \A i \in 1..n : \E j \in 1..Len(coin.utxos) : coin.utxos[j] = sel[i]
           /\ \A i, j \in 1..n : sel[i] = sel[j] => i = j
           /\ \A i \in 1..(n - 1) : sel[i].value >= sel[i + 1].value
           /\ \A j \in 1..Len(coin.utxos) :
                  (\A i \in 1..n : sel[i] # coin.utxos[j]) =>
                      \A i \in 1..n : sel[i].value >= coin.utxos[j].value
           /\ (/\ coin.utxos = MkUtxos(<<100000000, 50000000>>)
               /\ coin.targetSatoshis = 10000000 /\ coin.feePerByte = 1)
                 => sel = MkUtxos(<<100000000>>)

C5_Witness ==
    /\ coin.done /\ coin.result.ok
    /\ Len(coin.result.selected) = 2
    /\ Len(coin.utxos) = 3
    /\ coin.utxos[1].value < coin.utxos[3].value

\* ------------------------------------------------------------------------
\* Properties of createFungibleToken
\* ------------------------------------------------------------------------
Mints == {c \in Calls : calls[c].op = "createFungibleToken"}

MintOrder == <<"listUnspent", "broadcast", "listUnspent", "broadcast">>

LastStatus(w) == w[Len(w)].status

\* each collaborator call of the mint starts only after the one before it has
\* returned successfully, in the order of MintOrder
WireInOrder(c) ==
    LET w == wire[c] IN
    /\ Len(w) <= Len(MintOrder)
    /\ \A i \in 1..Len(w) :
          /\ w[i].method = MintOrder[i]
          /\ i < Len(w) => w[i].status = "ok"
    /\ Len(w) >= 2 => w[2].rawTx = calls[c].commitResult.rawTx
    /\ Len(w) >= 3 => calls[c].commitTxid = TxidOf(w[2].rawTx)
    /\ Len(w) >= 4 => /\ w[4].rawTx = calls[c].built.rawTx
                      /\ w[4].rawTx # w[2].rawTx
    /\ calls[c].pc \in {"RevealBuilt", "Complete"} => Len(w) = 4
    /\ calls[c].pc = "CommitBroadcast" => Len(w) = 3
    /\ calls[c].pc = "CommitBuilt" => Len(w) = 2
    /\ calls[c].pc = "Idle" => Len(w) = 1

\* the steps of the flow; the code computes tokenRef and returns in the step in
\* which the reveal broadcast answers, so RevealBroadcast is passed within the
\* step from RevealBuilt to Complete
FlowStep(a, b) ==
    \/ a = b
    \/ <<a, b>> \in {<<"Idle", "CommitBuilt">>, <<"CommitBuilt", "CommitBroadcast">>,
                      <<"CommitBroadcast", "RevealBuilt">>, <<"RevealBuilt", "Complete">>}
    \/ b = "Failed" /\ a \notin {"Complete", "Failed"}

\* C1: within one createFungibleToken call the collaborator calls happen
\* strictly one after another, in the order listUnspent, broadcast(commit),
\* listUnspent, broadcast(reveal); the reveal's UTXO query and coin selection
\* never start before the commit broadcast has returned successfully; the flow
\* only moves forward along Idle, CommitBuilt, CommitBroadcast, RevealBuilt,
\* RevealBroadcast, Complete, or from a step before Complete to Failed, which
\* is terminal.
C1_MintSequential ==
    /\ [](\A c \in Mints : WireInOrder(c))
    /\ [][\A c \in Calls :
            calls[c].op = "createFungibleToken" =>
                FlowStep(calls[c].pc, calls'[c].pc)]_vars

C1_Witness ==
    \E c \in Mints :
        /\ calls[c].pc = "Complete"
        /\ Len(wire[c]) = 4
        /\ \A i \in 1..4 : wire[c][i].status = "ok"

RevealErrors ==
    {"No UTXOs available for reveal tx", "Insufficient funds"} \cup (SignerAnswers \ {"ok"})

BroadcastsOf(w) == {i \in 1..Len(w) : w[i].method = "broadcast"}

\* C2: when a step after a successful commit broadcast fails (the second UTXO
\* query errors or returns nothing, the reveal coin selection lacks funds,
\* signing fails, or the reveal broadcast is rejected), createFungibleToken
\* fails with that error, returns no result and no tokenRef, makes no further
\* broadcast, and neither rolls back nor retries: the commit stays broadcast.
C2_NoRollbackNoRetry ==
    /\ [][\A c \in Calls :
            (/\ calls[c].op = "createFungibleToken"
             /\ calls[c].pc \in {"CommitBroadcast", "RevealBuilt"}
             /\ calls'[c].pc = "Failed")
            => /\ LastStatus(wire'[c]) # "pending"
               /\ LastStatus(wire'[c]) # "ok" => calls'[c].error = LastStatus(wire'[c])
               /\ LastStatus(wire'[c]) = "ok" =>
                     /\ calls'[c].error \in RevealErrors
                     /\ view = <<>> => calls'[c].error = "No UTXOs available for reveal tx"
               /\ calls'[c].result = NoResult
               /\ Len(wire'[c]) = Len(wire[c])
               /\ ledger' = ledger
               /\ calls'[c].commitTxid = calls[c].commitTxid]_vars
    /\ [][\A c \in Calls :
            calls[c].pc = "Failed" => calls'[c] = calls[c] /\ wire'[c] = wire[c]]_vars
    /\ [](\A c \in Mints :
            /\ Cardinality(BroadcastsOf(wire[c])) <= 2
            /\ \A i \in 1..Len(wire[c]) :
                  wire[c][i].status \notin {"ok", "pending"} => i = Len(wire[c])
            /\ (calls[c].pc = "Failed" /\ calls[c].commitTxid # NoTxid) =>
                  /\ calls[c].result = NoResult
                  /\ wire[c][2].status = "ok"
                  /\ \A i \in 1..Len(calls[c].commitResult.rawTx.ins) :
                        ~InLedger(calls[c].commitResult.rawTx.ins[i], ledger))

C2_Witness ==
    \E c \in Mints :
        /\ calls[c].pc = "Failed"
        /\ calls[c].commitTxid # NoTxid
        /\ calls[c].error = "Insufficient funds"
        /\ \E d \in Mints : calls[d].pc = "Failed" /\ Len(wire[d]) = 4
                               /\ calls[d].error \in BroadcastErrors

\* C3: whenever createFungibleToken returns a result, both the commit and the
\* reveal broadcast succeeded, commitTxid differs from revealTxid, and tokenRef
\* is revealTxid followed by "_0"; no tokenRef exists before the reveal
\* broadcast has succeeded.
C3_TokenRefFromReveal ==
    \A c \in Mints :
        LET w == wire[c]
            r == calls[c].result
        IN /\ calls[c].pc = "Complete" =>
                /\ Len(w) = 4
                /\ w[2].method = "broadcast" /\ w[2].status = "ok"
                /\ w[4].method = "broadcast" /\ w[4].status = "ok"
                /\ r.commitTxid = TxidOf(w[2].rawTx)
                /\ r.txid = TxidOf(w[4].rawTx)
                /\ r.commitTxid # r.txid
                /\ r.tokenRef = <<r.txid, 0>>
                /\ r.broadcasted
           /\ calls[c].pc # "Complete" => r = NoResult

C3_Witness ==
    \E c \in Mints :
        /\ calls[c].pc = "Complete"
        /\ calls[c].result.tokenRef # NoResult.tokenRef
        /\ Len(view) >= 2

\* C6: the core holds no lock or reservation on the UTXO set between the query
\* and the broadcast: the coins of a commit are selected from the indexer's
\* answer alone, whatever other invocations have selected, so two concurrent
\* createFungibleToken calls can select the same UTXO, and both go on to
\* broadcast.
C6_NoReservation ==
    [][\A c \in Calls :
        (/\ calls[c].op = "createFungibleToken"
         /\ calls[c].pc = "Idle"
         /\ calls'[c].pc = "CommitBuilt")
        => /\ calls'[c].utxos = view
           /\ calls'[c].commitResult.rawTx.ins
                 = selectCoins(view, DUST_SATOSHIS, calls[c].p.feePerByte, 1,
                               <<commitOpReturnSize>>).selected
           /\ LastStatus(wire'[c]) = "pending"
           /\ ledger' = ledger /\ view' = view]_vars

C6_Witness ==
    /\ calls["c1"].pc = "CommitBuilt"
    /\ calls["c2"].pc = "CommitBuilt"
    /\ \E i \in 1..Len(calls["c1"].commitResult.rawTx.ins) :
          InLedger(calls["c1"].commitResult.rawTx.ins[i], calls["c2"].commitResult.rawTx.ins)

\* ------------------------------------------------------------------------
\* Properties of transferToken, burnToken and the send operations
\* ------------------------------------------------------------------------
\* the (txid, vout) a token reference names
RefOutpoint(tokenRef) ==
    [tx_hash |-> tokenRef[1], tx_pos |-> IF Len(tokenRef) >= 2 THEN tokenRef[2] ELSE 0]

Reported(utxos, tokenRef) ==
    \E i \in 1..Len(utxos) : Outpoint(utxos[i]) = RefOutpoint(tokenRef)

TokenOps == {"transferToken", "burnToken"}

\* C7: transferToken and burnToken fail with TokenUtxoNotFound, without
\* building or broadcasting a transaction, whenever no UTXO of the set the
\* indexer reports for the sender's address has the (txid, vout) of tokenRef.
C7_TokenUtxoNotFound ==
    /\ [][\A c \in Calls :
            (/\ calls[c].op \in TokenOps
             /\ calls[c].pc = "Idle"
             /\ calls'[c].pc # "Idle"
             /\ LastStatus(wire'[c]) \in {"ok", "pending"}
             /\ ~Reported(view, calls[c].p.tokenRef))
            => /\ calls'[c].pc = "Failed"
               /\ calls'[c].error = "Token UTXO not found"
               /\ calls'[c].built = NoBuild
               /\ calls'[c].signer = "none"
               /\ BroadcastsOf(wire'[c]) = {}
               /\ ledger' = ledger]_vars
    /\ [](\A c \in Calls :
            calls[c].error = "Token UTXO not found" =>
                /\ calls[c].pc = "Failed"
                /\ calls[c].result = NoResult
                /\ BroadcastsOf(wire[c]) = {})

C7_Witness ==
    /\ calls["c1"].op = "transferToken" /\ calls["c2"].op = "burnToken"
    /\ \A c \in Calls : calls[c].error = "Token UTXO not found" /\ calls[c].utxos # <<>>

TransferBuilt(c) ==
    calls[c].op = "transferToken" /\ calls[c].pc \in {"TxBuilt", "Complete"}

\* C8: transferToken spends the token UTXO alone when its value covers the
\* transfer amount plus the estimated fee plus dust (546); otherwise its
\* inputs are the token UTXO followed by the fee-covering UTXOs selectCoins
\* picks from the UTXO set without the token UTXO; either way the token UTXO is
\* the first input and appears once, and the transaction has one recipient
\* output of the transfer amount, plus change.
C8_TransferInputs ==
    \A c \in Calls :
        TransferBuilt(c) =>
            LET p    == calls[c].p
                ins  == calls[c].built.rawTx.ins
                outs == calls[c].built.rawTx.outs
                ref  == RefOutpoint(p.tokenRef)
                estimatedFee == (TX_OVERHEAD + 2 * P2PKH_INPUT_SIZE + 2 * P2PKH_OUTPUT_SIZE)
                                  * p.feePerByte
                others == SelectSeq(calls[c].utxos, LAMBDA u : Outpoint(u) # ref)
            IN /\ Len(ins) >= 1
               /\ Outpoint(ins[1]) = ref
               /\ \E i \in 1..Len(calls[c].utxos) : calls[c].utxos[i] = ins[1]
               /\ \A i \in 2..Len(ins) : Outpoint(ins[i]) # ref
               /\ IF ins[1].value >= p.amount + estimatedFee + DUST_SATOSHIS
                  THEN ins = <<ins[1]>>
                  ELSE Tail(ins) = selectCoins(others, estimatedFee + DUST_SATOSHIS,
                                               p.feePerByte, 2, <<>>).selected
               /\ outs[1] = AddressOutput(p.toAddress, p.amount)
               /\ Len(outs) <= 2
               /\ Len(outs) = 2 =>
                     /\ outs[2].address = p.changeAddress
                     /\ outs[2].satoshis = SumValues(ins) - p.amount - calls[c].built.fee

C8_Witness ==
    /\ TransferBuilt("c1") /\ Len(calls["c1"].built.rawTx.ins) = 1
    /\ TransferBuilt("c2") /\ Len(calls["c2"].built.rawTx.ins) = 2
    /\ Len(calls["c2"].built.rawTx.outs) = 2

BurnBuilt(c) ==
    calls[c].op = "burnToken" /\ calls[c].pc \in {"TxBuilt", "Complete"}

\* C9: burnToken spends the token UTXO into a data-carrier output that embeds
\* the burn-protocol marker instead of paying a recipient address, and removes
\* the value from the spendable set: the spendable (address) outputs of the burn
\* transaction carry no more than the value of its other inputs, so nothing of
\* the burned token UTXO's value comes back.
C9_BurnRemovesValue ==
    \A c \in Calls :
        BurnBuilt(c) =>
            LET ins  == calls[c].built.rawTx.ins
                outs == calls[c].built.rawTx.outs
            IN /\ Outpoint(ins[1]) = RefOutpoint(calls[c].p.tokenRef)
               /\ outs[1].address = "none" /\ outs[1].script.kind = "burn"
               /\ SumSatoshis(AddressOutputs(outs)) <= SumValues(ins) - ins[1].value

FailedOps == {c \in Calls : calls[c].op \in SingleOps /\ calls[c].pc = "Failed"}

\* C10: in sendRxd, sendBatch, transferToken, burnToken and buildTransaction
\* with dryRun=false, broadcastTransaction is called at most once per
\* invocation and never retried; when the indexer or the signer raises an
\* error, the operation fails with that same error and returns no result.
C10_OneBroadcastErrorsVerbatim ==
    /\ [](\A c \in Calls :
            calls[c].op \in SingleOps =>
                /\ Cardinality(BroadcastsOf(wire[c])) <= 1
                /\ Len(wire[c]) <= 2
                /\ \A i \in 1..Len(wire[c]) :
                      wire[c][i].status \notin {"ok", "pending"} =>
                          /\ i = Len(wire[c])
                          /\ calls[c].pc = "Failed"
                          /\ calls[c].error = wire[c][i].status
                /\ calls[c].signer \notin {"none", "ok"} =>
                      /\ calls[c].pc = "Failed"
                      /\ calls[c].error = calls[c].signer
                      /\ BroadcastsOf(wire[c]) = {}
                /\ calls[c].pc = "Failed" => calls[c].result = NoResult
                /\ (calls[c].pc = "Complete" /\ calls[c].result.broadcasted) =>
                      /\ Cardinality(BroadcastsOf(wire[c])) = 1
                      /\ calls[c].error = "none")
    /\ [][\A c \in Calls :
            (calls[c].op \in SingleOps /\ calls[c].pc \in {"Failed", "Complete"})
                => calls'[c] = calls[c] /\ wire'[c] = wire[c]]_vars

C10_Witness ==
    /\ FailedOps = Calls
    /\ calls["c1"].error \in BroadcastErrors
    /\ calls["c1"].op = "buildTransaction"
    /\ calls["c2"].error \in (SignerAnswers \ {"ok"})

BuildTransactions == {c \in Calls : calls[c].op = "buildTransaction"}

\* C11: buildTransaction never calls broadcastTransaction unless dryRun is
\* explicitly false: with dryRun omitted or true no broadcast request is ever
\* issued and the call returns broadcasted = false, leaving the ledger as it
\* was; with dryRun = false a call that returns has broadcast exactly once and
\* returns broadcasted = true.
C11_DryRunNeverBroadcasts ==
    /\ [](\A c \in BuildTransactions :
            IF calls[c].p.dryRun \in {"omitted", "true"}
            THEN /\ BroadcastsOf(wire[c]) = {}
                 /\ calls[c].pc # "TxBuilt"
                 /\ calls[c].pc = "Complete" =>
                       /\ ~calls[c].result.broadcasted
                       /\ calls[c].result.rawTx = calls[c].built.rawTx
                       /\ calls[c].result.txid = calls[c].built.txid
            ELSE /\ Cardinality(BroadcastsOf(wire[c])) <= 1
                 /\ calls[c].pc = "Complete" =>
                       /\ calls[c].result.broadcasted
                       /\ Cardinality(BroadcastsOf(wire[c])) = 1
                       /\ LastStatus(wire[c]) = "ok"
                       /\ wire[c][2].rawTx = calls[c].result.rawTx)
    /\ [][\A c \in Calls :
            (/\ calls'[c].op = "buildTransaction"
             /\ calls'[c].p.dryRun \in {"omitted", "true"}
             /\ calls'[c] # calls[c])
            => ledger' = ledger]_vars

C11_Witness ==
    /\ calls["c1"].op = "buildTransaction" /\ calls["c1"].p.dryRun = "omitted"
    /\ calls["c1"].pc = "Complete" /\ ~calls["c1"].result.broadcasted
    /\ calls["c2"].op = "buildTransaction" /\ calls["c2"].p.dryRun = "false"
    /\ calls["c2"].pc = "Complete" /\ calls["c2"].result.broadcasted

\* ------------------------------------------------------------------------
\* Output values of the transactions the core builds
\* ------------------------------------------------------------------------
\* the amounts the caller asked to pay, by position of the recipient output
RequestedAmounts(op, p) ==
    CASE op = "sendRxd" -> <<p.satoshis>>
      [] op \in {"sendBatch", "buildTransaction"} ->
           [i \in 1..Len(p.outputs) |-> p.outputs[i].satoshis]
      [] op = "transferToken" -> <<p.amount>>
      [] OTHER -> <<>>

\* the transactions an invocation has built so far
BuiltBy(c) ==
    {calls[c].built.rawTx, calls[c].commitResult.rawTx}
       \cup {wire[c][i].rawTx : i \in BroadcastsOf(wire[c])}

IsDust(out) == out.address # "none" /\ out.satoshis < DUST_SATOSHIS

Abs(a) == IF a < 0 THEN 0 - a ELSE a

JsDiv(a, b) ==
    IF (a < 0) = (b < 0) THEN Abs(a) \div Abs(b) ELSE 0 - (Abs(a) \div Abs(b))

JsRem(a, b) == a - b * JsDiv(a, b)

\* ------------------------------------------------------------------------
\* secp256k1 (references.ts 206-250, part_001 118-162) on a curve
\* y^2 = x^3 + 7 of prime order N < P whose coordinates fit one byte, so that
\* every scalar and every point can be enumerated
\* ------------------------------------------------------------------------
P == 211
N == 199
GX == 3
GY == 33

\* the number of bytes of a scalar and of a coordinate (32 in the source)
KeyLen == 1

RECURSIVE modInvLoop(_, _, _, _, _)
modInvLoop(r0, r1, s0, s1, m) ==
    IF r1 = 0 THEN JsRem(JsRem(s0, m) + m, m)
    ELSE LET q == JsDiv(r0, r1)
         IN modInvLoop(r1, r0 - q * r1, s1, s0 - q * s1, m)

\* references.ts 211-220: r0 starts at a % m
modInv(a, m) == modInvLoop(JsRem(a, m), m, 1, 0, m)

\* part_001 123-132: r0 starts at ((a % m) + m) % m
modInvHD(a, m) == modInvLoop(JsRem(JsRem(a, m) + m, m), m, 1, 0, m)

\* references.ts 222-230
ecAdd(x1, y1, x2, y2) ==
    LET s  == IF x1 = x2 /\ y1 = y2
              THEN JsRem((3 * x1 * x1) * modInv(2 * y1, P), P)
              ELSE JsRem((y2 - y1) * modInv(JsRem(x2 - x1 + P, P), P), P)
        x3 == JsRem(s * s - x1 - x2 + 2 * P, P)
        y3 == JsRem(s * (x1 - x3 + P) - y1 + P, P)
    IN <<x3, y3>>

\* part_001 134-141
ecAddHD(x1, y1, x2, y2) ==
    LET s  == IF x1 = x2 /\ y1 = y2
              THEN JsRem((3 * x1 * x1) * modInvHD(2 * y1, P), P)
              ELSE JsRem(JsRem(y2 - y1 + P, P) * modInvHD(JsRem(x2 - x1 + P, P), P), P)
        x3 == JsRem(JsRem(s * s - x1 - x2, P) + P, P)
        y3 == JsRem(JsRem(s * JsRem(x1 - x3 + P, P) - y1, P) + P, P)
    IN <<x3, y3>>

RECURSIVE ecMulLoop(_, _, _, _, _)
\* references.ts 232-244: r is <<rx, ry>>, q is <<qx, qy>>
ecMulLoop(k, r, first, q, hd) ==
    IF k <= 0 THEN r
    ELSE LET add(a, b) == IF hd THEN ecAddHD(a[1], a[2], b[1], b[2])
                          ELSE ecAdd(a[1], a[2], b[1], b[2])
             r2 == IF k % 2 = 1 THEN (IF first THEN q ELSE add(r, q)) ELSE r
             f2 == IF k % 2 = 1 THEN FALSE ELSE first
         IN ecMulLoop(k \div 2, r2, f2, add(q, q), hd)

ecMul(k, px, py) == ecMulLoop(k, <<0, 0>>, TRUE, <<px, py>>, FALSE)

ecMulHD(k, px, py) == ecMulLoop(k, <<0, 0>>, TRUE, <<px, py>>, TRUE)

\* ------------------------------------------------------------------------
\* Buffers are sequences of bytes; hex strings are sequences of characters,
\* the hex digits 0..15 and NotHex for any other character
\* ------------------------------------------------------------------------
NotHex == 16

Zeros(n) == [i \in 1..n |-> 0]

\* buf.subarray(start, end), both already non-negative
Subarray(buf, start, end) ==
    LET e == IF end > Len(buf) THEN Len(buf) ELSE end
    IN IF start >= e THEN <<>> ELSE SubSeq(buf, start + 1, e)

RECURSIVE BufferFromHex(_)
\* Buffer.from(hex, "hex"): decodes pairs of hex digits and stops at the first
\* pair that is not one
BufferFromHex(hex) ==
    IF Len(hex) < 2 \/ hex[1] >= NotHex \/ hex[2] >= NotHex THEN <<>>
    ELSE <<hex[1] * 16 + hex[2]>> \o BufferFromHex(Tail(Tail(hex)))

RECURSIVE HexDigits(_)
\* n.toString(16) for n >= 0
HexDigits(n) ==
    IF n < 16 THEN <<n>> ELSE Append(HexDigits(n \div 16), n % 16)

\* n.toString(16) for any n: a minus sign is no hex digit
ToString16(n) == IF n < 0 THEN <<NotHex>> \o HexDigits(0 - n) ELSE HexDigits(n)

\* str.padStart(len, "0")
PadStart(str, len) == IF Len(str) >= len THEN str ELSE Zeros(len - Len(str)) \o str

RECURSIVE BytesValue(_)
\* BigInt("0x" + buf.toString("hex")) of a non-empty buffer
BytesValue(buf) ==
    IF buf = <<>> THEN 0 ELSE BytesValue(SubSeq(buf, 1, Len(buf) - 1)) * 256 + buf[Len(buf)]

\* ------------------------------------------------------------------------
\* Compressed public keys
\* ------------------------------------------------------------------------
\* lines 248-249 of references.ts and 160-161 of part_001: y % 2n === 0n
PubKeyOf(xy) ==
    <<IF JsRem(xy[2], 2) = 0 THEN 2 ELSE 3>>
       \o BufferFromHex(PadStart(ToString16(xy[1]), 2 * KeyLen))

\* references.ts 246-250
privToPubKey(privKey) == PubKeyOf(ecMul(BytesValue(privKey), GX, GY))

\* part_001 157-162
compressedPubKey(privKey) == PubKeyOf(ecMulHD(BytesValue(privKey), GX, GY))

\* ------------------------------------------------------------------------
\* Base58 (references.ts 264-287): strings are sequences of indexes into the
\* alphabet B58, index 0 being the character "1"; NotB58 is any character
\* outside the alphabet.  BigInts wider than the machine word are kept as
\* their big-endian base-256 digits.
\* ------------------------------------------------------------------------
NotB58 == 58

IsZeroBytes(buf) == \A i \in 1..Len(buf) : buf[i] = 0

RECURSIVE LeadingCount(_, _)
\* how many leading elements of seq equal v
LeadingCount(seq, v) ==
    IF seq = <<>> \/ seq[1] # v THEN 0 ELSE 1 + LeadingCount(Tail(seq), v)

\* the digits of a number without its leading zero digits
Normalize(buf) == SubSeq(buf, LeadingCount(buf, 0) + 1, Len(buf))

RECURSIVE DivModStep(_, _, _, _, _)
DivModStep(buf, d, i, carry, acc) ==
    IF i > Len(buf) THEN [q |-> acc, r |-> carry]
    ELSE LET cur == carry * 256 + buf[i]
         IN DivModStep(buf, d, i + 1, cur % d, Append(acc, cur \div d))

\* num / d and num % d of a non-negative BigInt
DivMod(buf, d) == DivModStep(buf, d, 1, 0, <<>>)

RECURSIVE MulAddStep(_, _, _, _, _)
MulAddStep(buf, m, i, carry, acc) ==
    IF i = 0 THEN (IF carry = 0 THEN acc ELSE <<carry>> \o acc)
    ELSE LET cur == buf[i] * m + carry
         IN MulAddStep(buf, m, i - 1, cur \div 256, <<cur % 256>> \o acc)

\* num * m + a of a non-negative BigInt
MulAdd(buf, m, a) == Normalize(MulAddStep(buf, m, Len(buf), a, <<>>))

RECURSIVE B58Digits(_)
\* line 269: while (num > 0n) { s = B58[num % 58n] + s; num /= 58n; }
B58Digits(buf) ==
    IF IsZeroBytes(buf) THEN <<>>
    ELSE LET dm == DivMod(buf, 58) IN Append(B58Digits(dm.q), dm.r)

NoString == [ok |-> FALSE, error |-> "none", str |-> <<>>]

NoBuffer == [ok |-> FALSE, error |-> "none", buf |-> <<>>]

\* references.ts 266-272; BigInt("0x") of an empty buffer is a SyntaxError
b58encode(buf) ==
    IF buf = <<>> THEN [NoString EXCEPT !.error = "SyntaxError"]
    ELSE [NoString EXCEPT !.ok = TRUE,
                          !.str = Zeros(LeadingCount(buf, 0)) \o B58Digits(buf)]

RECURSIVE B58Number(_, _)
\* line 281: num = num * 58n + BigInt(i) over the characters of str
B58Number(str, num) ==
    IF str = <<>> THEN num ELSE B58Number(Tail(str), MulAdd(num, 58, str[1]))

\* references.ts 279-287: the hex of num is padded to an even length, so zero
\* becomes the one byte 00
b58decode(str) ==
    IF \E i \in 1..Len(str) : str[i] >= NotB58 THEN [NoBuffer EXCEPT !.error = "Bad b58"]
    ELSE LET num == B58Number(str, <<>>)
         IN [NoBuffer EXCEPT !.ok = TRUE,
                !.buf = Zeros(LeadingCount(str, 0)) \o (IF num = <<>> THEN <<0>> ELSE num)]

\* ------------------------------------------------------------------------
\* Hashes: node:crypto is outside the repository; a digest is a fixed
\* function of the bytes, cut to ChecksumLen bytes (4 in the source) for a
\* checksum and to HashLen bytes (20 in the source) for hash160
\* ------------------------------------------------------------------------
ChecksumLen == 1
HashLen == 1

RECURSIVE Digest(_, _)
Digest(buf, seed) ==
    IF buf = <<>> THEN seed
    ELSE Digest(Tail(buf), (seed * 31 + buf[1] + 1) % 251)

\* sha256d(data).subarray(0, 4)
sha256d4(buf) == <<Digest(buf, 7)>>

hash160(buf) == <<Digest(buf, 19)>>

\* references.ts 274-277
b58check(version, payload) ==
    LET vp == <<version>> \o payload
    IN b58encode(vp \o sha256d4(vp))

\* ------------------------------------------------------------------------
\* AgentWallet (references.ts 300-368)
\* ------------------------------------------------------------------------
Networks == {"mainnet", "testnet"}

NoWallet ==
    [ok |-> FALSE, error |-> "none", privKey |-> <<>>, network |-> "none",
     publicKey |-> <<>>, address |-> <<>>]

\* the version bytes 0x00 / 0x6f of an address and 0x80 / 0xef of a WIF
AddressVersion(network) == IF network = "mainnet" THEN 0 ELSE 111

WifVersion(network) == IF network = "mainnet" THEN 128 ELSE 239

\* constructor, lines 306-313
AgentWallet(privKey, network) ==
    IF privKey = <<>> THEN [NoWallet EXCEPT !.error = "SyntaxError"]
    ELSE IF BytesValue(privKey) <= 0 \/ BytesValue(privKey) >= N
    THEN [NoWallet EXCEPT !.error = "Invalid private key"]
    ELSE [NoWallet EXCEPT !.ok = TRUE, !.privKey = privKey, !.network = network,
             !.publicKey = privToPubKey(privKey),
             !.address = b58check(AddressVersion(network),
                                  hash160(privToPubKey(privKey))).str]

\* getWIF, lines 343-346
getWIF(w) == b58check(WifVersion(w.network), w.privKey \o <<1>>)

\* an index of subarray counted from the end when negative
FromEnd(buf, i) == IF i >= 0 THEN i ELSE IF Len(buf) + i < 0 THEN 0 ELSE Len(buf) + i

\* fromWIF keeping the whole payload as the key, compression flag included
fromWIFKeepFlag(wif) ==
    LET d == b58decode(wif)
    IN IF ~d.ok THEN [NoWallet EXCEPT !.error = d.error]
       ELSE AgentWallet(Subarray(d.buf, 1, FromEnd(d.buf, Len(d.buf) - ChecksumLen)),
                        IF d.buf[1] = 128 THEN "mainnet" ELSE "testnet")

\* fromWIF, lines 323-336
fromWIF(wif) ==
    LET d == b58decode(wif)
    IN IF ~d.ok THEN [NoWallet EXCEPT !.error = d.error]
       ELSE LET decoded  == d.buf
                len      == Len(decoded)
                cut      == FromEnd(decoded, len - ChecksumLen)
                payload  == Subarray(decoded, 0, cut)
                checksum == Subarray(decoded, cut, len)
                flagAt   == len - ChecksumLen - 1
                network  == IF decoded[1] = 128 THEN "mainnet" ELSE "testnet"
                keyBytes == IF flagAt >= 0 /\ decoded[flagAt + 1] = 1
                            THEN Subarray(decoded, 1, 1 + KeyLen)
                            ELSE Subarray(decoded, 1, cut)
            IN IF sha256d4(payload) # checksum
               THEN [NoWallet EXCEPT !.error = "Invalid WIF checksum"]
               ELSE AgentWallet(keyBytes, network)

\* fromHex, lines 338-341
fromHex(hex, network) == AgentWallet(BufferFromHex(hex), network)

\* ------------------------------------------------------------------------
\* Wallets under test: constructed by create, fromHex or fromWIF, then
\* exported with getWIF, restored with fromWIF and exported again
\* ------------------------------------------------------------------------
Bytes == 0..255

KeyBuffers == [1..KeyLen -> Bytes]

ValidScalar(buf) == BytesValue(buf) > 0 /\ BytesValue(buf) < N

\* hex strings a caller may pass: every string of up to one byte, and some
\* of two bytes
HexInputs ==
    {<<>>} \cup {<<a>> : a \in 0..NotHex} \cup {<<a, b>> : a, b \in 0..NotHex}
       \cup {<<0, 0, 0, 5>>, <<0, 0, 12, 6>>, <<0, 0, 0, 0>>, <<0, 1, 0, 0>>,
              <<0, 5, NotHex, 1>>, <<12, 6, 0>>}

\* candidate keys inside WIF strings: zero, valid ones, N and beyond
WifKeys == {0, 1, 5, N - 1, N, 255}

WifPayloads ==
    {<<>>} \cup {<<k>> : k \in WifKeys} \cup {<<k, 1>> : k \in WifKeys}
       \cup {<<0, 5>>, <<0, 5, 1>>, <<5, 1, 1>>}

\* well-formed WIF strings of every version and payload, the same with the
\* last character replaced, and strings with a character outside the alphabet
WifInputs ==
    LET good == {b58check(v, pl).str : v \in {128, 239, 0}, pl \in WifPayloads}
    IN good \cup {[w EXCEPT ![Len(w)] = (@ + 1) % 58] : w \in good}
            \cup {<<>>, <<0>>, <<NotB58>>, <<5, NotB58, 7>>}

NoWalletTest ==
    [kind |-> "wallet", pc |-> "new", src |-> "none", w |-> NoWallet,
     wif |-> NoString, r |-> NoWallet, wif2 |-> NoString]

InitObjects ==
    /\ ledger = <<>>
    /\ view = <<>>
    /\ calls = [c \in Calls |-> NoCall]
    /\ wire = [c \in Calls |-> <<>>]
    /\ coin = NoCoin

InitWallet == InitObjects /\ sdk = NoWalletTest

Constructed(src, w) ==
    /\ sdk.pc = "new"
    /\ sdk' = [sdk EXCEPT !.pc = "built", !.src = src, !.w = w]
    /\ UNCHANGED <<ledger, view, calls, wire, coin>>

\* create, lines 316-320: draws keys until one is a valid scalar
WalletCreate ==
    \E network \in Networks : \E key \in KeyBuffers :
        /\ ValidScalar(key)
        /\ Constructed("create", AgentWallet(key, network))

WalletFromHex ==
    \E network \in Networks : \E hex \in HexInputs :
        Constructed("fromHex", fromHex(hex, network))

WalletFromWIF == \E wif \in WifInputs : Constructed("fromWIF", fromWIF(wif))

\* getWIF of the wallet, fromWIF of that string, getWIF of the result
WalletRoundTrip ==
    /\ sdk.pc = "built" /\ sdk.w.ok
    /\ LET wif == getWIF(sdk.w)
           r   == fromWIF(wif.str)
       IN sdk' = [sdk EXCEPT !.pc = "restored", !.wif = wif, !.r = r,
                             !.wif2 = IF r.ok THEN getWIF(r) ELSE NoString]
    /\ UNCHANGED <<ledger, view, calls, wire, coin>>

NextWallet == WalletCreate \/ WalletFromHex \/ WalletFromWIF \/ WalletRoundTrip

SpecWallet == InitWallet /\ [][NextWallet]_vars

\* C13: every AgentWallet that is successfully constructed (by create,
\* fromWIF or fromHex) holds a private key of exactly KeyLen bytes (32 in the
\* source) with 1 <= k < N; an input whose scalar is 0 or >= N, or whose key
\* has another length, is rejected instead of being wrapped, padded or cut.
C13_KeyLengthAndRange ==
    (sdk.pc # "new" /\ sdk.w.ok) =>
        /\ Len(sdk.w.privKey) = KeyLen
        /\ BytesValue(sdk.w.privKey) >= 1
        /\ BytesValue(sdk.w.privKey) < N

\* ------------------------------------------------------------------------
\* The curve as mathematics defines it: coordinates in [0, P), the chord and
\* tangent rule
\* ------------------------------------------------------------------------
OnCurve(pt) ==
    /\ pt[1] \in 0..(P - 1) /\ pt[2] \in 0..(P - 1)
    /\ (pt[2] * pt[2]) % P = (pt[1] * pt[1] * pt[1] + 7) % P

FieldInverse(a) == CHOOSE i \in 1..(P - 1) : (a * i) % P = 1

PointSum(p1, p2) ==
    LET s == IF p1 = p2
             THEN (3 * p1[1] * p1[1] * FieldInverse((2 * p1[2]) % P)) % P
             ELSE (((p2[2] - p1[2]) % P) * FieldInverse((p2[1] - p1[1]) % P)) % P
        x == (s * s - p1[1] - p2[1]) % P
    IN <<x, (s * (p1[1] - x) - p1[2]) % P>>

RECURSIVE Multiple(_)
\* k * G = 2 * ((k div 2) * G), plus G when k is odd
Multiple(k) ==
    IF k = 1 THEN <<GX, GY>>
    ELSE LET half == Multiple(k \div 2)
             twice == PointSum(half, half)
         IN IF k % 2 = 0 THEN twice ELSE PointSum(twice, <<GX, GY>>)

\* the compressed encoding of k * G: parity prefix, then KeyLen bytes of x
Compressed(k) ==
    LET pt == Multiple(k)
    IN <<IF pt[2] % 2 = 0 THEN 2 ELSE 3>> \o [i \in 1..KeyLen |-> pt[1]]

\* C14: for every scalar k with 1 <= k < N the compressed public key computed
\* by the wallet (privToPubKey) and by HD derivation (compressedPubKey) has
\* 1 + KeyLen bytes (33 in the source): the first is 0x02 when the
\* y-coordinate of k * G, taken in [0, P), is even and 0x03 when it is odd,
\* the others are the x-coordinate in [0, P).
C14_CompressedPubKey ==
    (sdk.pc # "new" /\ sdk.src = "create") =>
        LET k == BytesValue(sdk.w.privKey)
        IN /\ OnCurve(Multiple(k))
           /\ compressedPubKey(sdk.w.privKey) = Compressed(k)
           /\ sdk.w.publicKey = Compressed(k)

\* C15: for every wallet w returned by AgentWallet.create, on either network,
\* fromWIF(w.getWIF()) yields a wallet with the same private key, the same
\* address and the same network, and exporting it again gives the same WIF
\* string.
C15_WifRoundTrip ==
    (sdk.pc = "restored" /\ sdk.src = "create") =>
        /\ sdk.wif.ok /\ sdk.r.ok
        /\ sdk.r.privKey = sdk.w.privKey
        /\ sdk.r.address = sdk.w.address
        /\ sdk.r.network = sdk.w.network
        /\ sdk.r.publicKey = sdk.w.publicKey
        /\ sdk.wif2 = sdk.wif

C15_Witness ==
    /\ sdk.pc = "restored" /\ sdk.src = "create"
    /\ sdk.w.network = "testnet"
    /\ sdk.w.privKey = <<1>>
    /\ sdk.r.ok /\ sdk.r.privKey = <<1>> /\ sdk.wif2.str # <<>>

\* ------------------------------------------------------------------------
\* BIP39 mnemonics (part_001 16-78).  A phrase is the list of its words after
\* trim, toLowerCase and split; a word is its index in ENGLISH_WORDLIST, or
\* NotWord when indexOf answers -1.  The widths are scaled: words of WordBits
\* bits (11 in the source), one checksum bit per ChecksumRatio entropy bits (32
\* in the source), and STRENGTH_MAP maps 3 and 6 words to 8 and 16 bits where
\* the source maps 12..24 words to 128..256 bits.
\* ------------------------------------------------------------------------
WordBits == 3
ChecksumRatio == 8

Pow2(n) == IF n = 0 THEN 1 ELSE IF n = 1 THEN 2 ELSE IF n = 2 THEN 4 ELSE IF n = 3 THEN 8
           ELSE IF n = 4 THEN 16 ELSE IF n = 5 THEN 32 ELSE IF n = 6 THEN 64
           ELSE IF n = 7 THEN 128 ELSE 256

NotWord == Pow2(WordBits)

STRENGTH_MAP == (3 :> 8) @@ (6 :> 16)

\* n.toString(2).padStart(width, "0")
ToBits(n, width) == [i \in 1..width |-> (n \div Pow2(width - i)) % 2]

RECURSIVE ParseBits(_)
\* parseInt(bits, 2)
ParseBits(bits) ==
    IF bits = <<>> THEN 0
    ELSE 2 * ParseBits(SubSeq(bits, 1, Len(bits) - 1)) + bits[Len(bits)]

\* bits.slice(from, to), 0-based, to clamped to the length
Slice(bits, from, to) ==
    SubSeq(bits, from + 1, IF to > Len(bits) THEN Len(bits) ELSE to)

RECURSIVE BytesBits(_)
BytesBits(buf) ==
    IF buf = <<>> THEN <<>> ELSE ToBits(buf[1], 8) \o BytesBits(Tail(buf))

\* createHash("sha256").update(entropy).digest()[0]
Sha256First(buf) == Digest(buf, 113) % 256

\* (hash[0] >> (7 - i)) & 1 for i = 0 .. checksumBits - 1
ChecksumBitsOf(hash0, checksumBits) ==
    [i \in 1..checksumBits |-> (hash0 \div Pow2(8 - i)) % 2]

\* generateMnemonic, lines 24-44, for the entropy randomBytes returned
generateMnemonic(wordCount, entropy) ==
    LET strength     == STRENGTH_MAP[wordCount]
        checksumBits == strength \div ChecksumRatio
        bits == BytesBits(entropy) \o ChecksumBitsOf(Sha256First(entropy), checksumBits)
        count == (Len(bits) + WordBits - 1) \div WordBits
    IN [w \in 1..count |-> ParseBits(Slice(bits, (w - 1) * WordBits, w * WordBits))]

RECURSIVE WordsBits(_)
WordsBits(words) ==
    IF words = <<>> THEN <<>> ELSE ToBits(words[1], WordBits) \o WordsBits(Tail(words))

\* validateMnemonic accepting every phrase of listed words and right length
validateMnemonicNoChecksum(words) ==
    /\ Len(words) \in DOMAIN STRENGTH_MAP
    /\ \A i \in 1..Len(words) : words[i] # NotWord

\* validateMnemonic, lines 49-78
validateMnemonic(words) ==
    IF Len(words) \notin DOMAIN STRENGTH_MAP THEN FALSE
    ELSE IF \E i \in 1..Len(words) : words[i] = NotWord THEN FALSE
    ELSE LET bits         == WordsBits(words)
             entropyBits  == (Len(words) * WordBits * ChecksumRatio) \div (ChecksumRatio + 1)
             checksumBits == Len(bits) - entropyBits
             entropyBytes == [i \in 1..(entropyBits \div 8) |->
                                 ParseBits(Slice(bits, (i - 1) * 8, (i - 1) * 8 + 8))]
             checksumActual == ChecksumBitsOf(Sha256First(entropyBytes), checksumBits)
         IN Slice(bits, entropyBits, Len(bits)) = checksumActual

\* the entropy randomBytes may return: every byte string for the short
\* strength, byte strings over EntropyBytes for the long one
EntropyBytes == {0, 1, 127, 128, 170, 255}

Entropies(wordCount) ==
    IF STRENGTH_MAP[wordCount] = 8 THEN {<<b>> : b \in Bytes}
    ELSE {<<a, b>> : a, b \in EntropyBytes}

NoMnemonicTest ==
    [kind |-> "mnemonic", pc |-> "new", how |-> "none", n |-> 0, entropy |-> <<>>,
     words |-> <<>>, valid |-> FALSE]

InitMnemonic == InitObjects /\ sdk = NoMnemonicTest

MnemonicGenerate ==
    /\ sdk.pc = "new"
    /\ \E n \in DOMAIN STRENGTH_MAP : \E entropy \in Entropies(n) :
          sdk' = [sdk EXCEPT !.pc = "phrase", !.how = "generated", !.n = n,
                             !.entropy = entropy, !.words = generateMnemonic(n, entropy)]
    /\ UNCHANGED <<ledger, view, calls, wire, coin>>

\* a phrase that differs from a generated one: one word replaced (by a listed
\* word or by an unlisted one), the last word dropped, or a word added
MnemonicTamper ==
    /\ sdk.pc = "phrase" /\ sdk.how = "generated"
    /\ \/ \E i \in 1..Len(sdk.words) : \E v \in (0..NotWord) \ {sdk.words[i]} :
             sdk' = [sdk EXCEPT !.how = "replaced", !.words[i] = v]
       \/ sdk' = [sdk EXCEPT !.how = "dropped",
                              !.words = SubSeq(sdk.words, 1, Len(sdk.words) - 1)]
       \/ \E v \in {0, NotWord} :
             sdk' = [sdk EXCEPT !.how = "added", !.words = Append(sdk.words, v)]
    /\ UNCHANGED <<ledger, view, calls, wire, coin>>

MnemonicValidate ==
    /\ sdk.pc = "phrase"
    /\ sdk' = [sdk EXCEPT !.pc = "checked", !.valid = validateMnemonic(sdk.words)]
    /\ UNCHANGED <<ledger, view, calls, wire, coin>>

NextMnemonic == MnemonicGenerate \/ MnemonicTamper \/ MnemonicValidate

SpecMnemonic == InitMnemonic /\ [][NextMnemonic]_vars

Listed(words) == \A i \in 1..Len(words) : words[i] \in 0..(NotWord - 1)

\* the bytes spelled by the leading bits of a phrase
LeadingBytes(words, count) ==
    [i \in 1..count |-> ParseBits(SubSeq(WordsBits(words), 8 * i - 7, 8 * i))]

\* the phrase is what generateMnemonic returns for some entropy
Generable(words) ==
    /\ Len(words) \in DOMAIN STRENGTH_MAP
    /\ Listed(words)
    /\ words = generateMnemonic(Len(words),
                                 LeadingBytes(words, STRENGTH_MAP[Len(words)] \div 8))

\* C16: for each word count of STRENGTH_MAP and every entropy,
\* generateMnemonic returns exactly that many words, all from the word list,
\* and validateMnemonic of that mnemonic is true; validateMnemonic is false
\* for a phrase with a wrong word count, with a word outside the list, or
\* whose trailing checksum bits differ from the recomputed checksum.
C16_MnemonicRoundTrip ==
    /\ (sdk.pc # "new" /\ sdk.how = "generated") =>
          /\ Len(sdk.words) = sdk.n
          /\ Listed(sdk.words)
          /\ Generable(sdk.words)
    /\ sdk.pc = "checked" =>
          /\ sdk.how = "generated" => sdk.valid
          /\ sdk.valid <=> Generable(sdk.words)
          /\ sdk.how \in {"dropped", "added"} => ~sdk.valid

C16_Witness ==
    /\ sdk.pc = "checked" /\ sdk.how = "replaced" /\ sdk.n = 6
    /\ Listed(sdk.words) /\ ~sdk.valid

\* ------------------------------------------------------------------------
\* BIP32 derivation (part_001 98-218).  A path string is the list of the
\* parts path.split("/") returns, each part a list of characters.  Indexes
\* are scaled from 32 to 4 bits: the hardened offset 0x80000000 becomes 8 and
\* writeUInt32BE accepts 0..15.
\* ------------------------------------------------------------------------
HardenedOffset == 8
UInt32Max == 15

Digits == {"0", "1", "8"}

DigitValue(c) == IF c = "0" THEN 0 ELSE IF c = "1" THEN 1 ELSE 8

NoNumber == [nan |-> TRUE, value |-> 0]

RECURSIVE DigitRun(_, _, _)
\* the value of the leading digits of str; any with at least one digit
DigitRun(str, value, any) ==
    IF str = <<>> \/ str[1] \notin Digits
    THEN (IF any THEN [nan |-> FALSE, value |-> value] ELSE NoNumber)
    ELSE DigitRun(Tail(str), value * 10 + DigitValue(str[1]), TRUE)

RECURSIVE SkipSpaces(_)
SkipSpaces(str) ==
    IF str # <<>> /\ str[1] = " " THEN SkipSpaces(Tail(str)) ELSE str

\* parseInt(str, 10): leading white space, an optional sign, then the longest
\* run of digits; NaN when there is no digit
parseInt(str) ==
    LET t == SkipSpaces(str)
    IN IF t # <<>> /\ t[1] = "-"
       THEN LET r == DigitRun(Tail(t), 0, FALSE)
            IN IF r.nan THEN r ELSE [r EXCEPT !.value = 0 - r.value]
       ELSE IF t # <<>> /\ t[1] = "+" THEN DigitRun(Tail(t), 0, FALSE)
       ELSE DigitRun(t, 0, FALSE)

\* parseInt accepting a string only when all of it is digits
parseIntStrict(str) ==
    IF str # <<>> /\ \A i \in 1..Len(str) : str[i] \in Digits
    THEN DigitRun(str, 0, FALSE) ELSE NoNumber

\* createHmac("sha512", key).update(data).digest(): left and right half
hmacSha512(key, data) ==
    [il |-> <<Digest(key \o <<255>> \o data, 41)>>,
     chainCode |-> <<Digest(data \o <<255>> \o key, 59)>>]

NoHDKey ==
    [ok |-> FALSE, error |-> "none", privateKey |-> <<>>, chainCode |-> <<>>,
     steps |-> <<>>]

\* masterKeyFromSeed, lines 107-117; the key of the HMAC is "Bitcoin seed"
masterKeyFromSeed(seed) ==
    LET I == hmacSha512(<<66>>, seed)
        k == BytesValue(I.il)
    IN IF k = 0 \/ k >= N THEN [NoHDKey EXCEPT !.error = "Invalid master key"]
       ELSE [NoHDKey EXCEPT !.ok = TRUE, !.privateKey = I.il, !.chainCode = I.chainCode]

\* deriveChild, lines 167-198; steps records each call's index and branch
deriveChild(parent, index) ==
    LET hardened == index >= HardenedOffset
        head     == IF hardened THEN <<0>> \o parent.privateKey
                    ELSE compressedPubKey(parent.privateKey)
        I        == hmacSha512(parent.chainCode, head \o <<index>>)
        il       == BytesValue(I.il)
        kChild   == (il + BytesValue(parent.privateKey)) % N
    IN IF index < 0 \/ index > UInt32Max THEN [parent EXCEPT !.ok = FALSE, !.error = "RangeError"]
       ELSE IF il >= N \/ kChild = 0
       THEN [parent EXCEPT !.ok = FALSE, !.error = "Invalid child key"]
       ELSE [parent EXCEPT !.privateKey = <<kChild>>, !.chainCode = I.chainCode,
                           !.steps = Append(@, [index |-> index, hardened |-> hardened])]

RECURSIVE derivePathFrom(_, _, _)
\* derivePath, the loop of lines 209-215 from part i on
derivePathFrom(key, parts, i) ==
    IF i > Len(parts) \/ ~key.ok THEN key
    ELSE LET part     == parts[i]
             hardened == part # <<>> /\ part[Len(part)] = "'"
             index    == parseInt(IF hardened THEN SubSeq(part, 1, Len(part) - 1) ELSE part)
         IN IF index.nan THEN [key EXCEPT !.ok = FALSE, !.error = "Invalid path segment"]
            ELSE derivePathFrom(
                     deriveChild(key, IF hardened THEN index.value + HardenedOffset
                                      ELSE index.value),
                     parts, i + 1)

\* derivePath, lines 203-218
derivePath(seed, parts) ==
    IF parts[1] # <<"m">> THEN [NoHDKey EXCEPT !.error = "Path must start with 'm'"]
    ELSE derivePathFrom(masterKeyFromSeed(seed), parts, 2)

\* --- derivation harness --------------------------------------------------
PathChars == Digits \cup {"'", "-", "x", " "}

MaxSegmentLen == 3

Segments == UNION {[1..n -> PathChars] : n \in 0..MaxSegmentLen}

\* the segments used where a path has two of them
ShortSegments ==
    {<<"0">>, <<"1", "'">>, <<"8">>, <<"1", "x">>, <<"-", "1", "'">>, <<"x">>}

PathHeads == {<<"m">>, <<"M">>, <<>>}

Paths ==
    {<<hd>> : hd \in PathHeads}
        \cup {<<hd, s>> : hd \in PathHeads, s \in Segments}
        \cup {<<<<"m">>, s, t>> : s \in ShortSegments, t \in ShortSegments}

\* seeds whose master key is valid, as it is for every seed met in practice
Seeds == {s \in {<<b>> : b \in 1..4} : masterKeyFromSeed(s).ok}

NoDeriveTest == [kind |-> "derive", pc |-> "new", seed |-> <<>>, parts |-> <<>>, key |-> NoHDKey]

InitDerive ==
    /\ InitObjects
    /\ sdk = NoDeriveTest

DerivePath ==
    /\ sdk.kind = "derive"
    /\ sdk.pc = "new"
    /\ \E seed \in Seeds, parts \in Paths :
           sdk' = [sdk EXCEPT !.pc = "derived", !.seed = seed, !.parts = parts,
                              !.key = derivePath(seed, parts)]
    /\ UNCHANGED <<ledger, view, calls, wire, coin>>

NextDerive == DerivePath

SpecDerive == InitDerive /\ [][NextDerive]_vars

\* --- C17 -------------------------------------------------------------------
IsIndexSegment(part) ==
    LET body == IF part # <<>> /\ part[Len(part)] = "'"
                THEN SubSeq(part, 1, Len(part) - 1) ELSE part
    IN body # <<>> /\ \A i \in 1..Len(body) : body[i] \in Digits

InGrammar(parts) ==
    /\ parts[1] = <<"m">>
    /\ \A i \in 2..Len(parts) : IsIndexSegment(parts[i])

RECURSIVE Decimal(_)
Decimal(digits) ==
    IF digits = <<>> THEN 0
    ELSE Decimal(SubSeq(digits, 1, Len(digits) - 1)) * 10 + DigitValue(digits[Len(digits)])

\* the derivation the path notation asks for at one segment
RequestedStep(part) ==
    IF part[Len(part)] = "'"
    THEN [index |-> Decimal(SubSeq(part, 1, Len(part) - 1)) + HardenedOffset, hardened |-> TRUE]
    ELSE [index |-> Decimal(part), hardened |-> FALSE]

\* C17: derivePath succeeds exactly on the paths "m" ("/" digits ["'"])*; a
\* segment with an apostrophe is derived hardened at index + 2^31 and one
\* without is derived non-hardened at the index itself.  (The rejection of an
\* invalid child key, which no real seed meets, is left aside.)
C17_PathGrammar ==
    (sdk.kind = "derive" /\ sdk.pc = "derived" /\ sdk.key.error # "Invalid child key")
        => /\ sdk.key.ok <=> InGrammar(sdk.parts)
           /\ sdk.key.ok =>
                  sdk.key.steps = [i \in 1..(Len(sdk.parts) - 1) |-> RequestedStep(sdk.parts[i + 1])]

\* ------------------------------------------------------------------------
\* Base58 round trip (references.ts 266-287, address.ts 12-33).  A string is
\* the list of its characters' positions in the alphabet, '1' being 0 and
\* NotB58 any character outside it.
\* ------------------------------------------------------------------------

\* address.ts 12-33
base58Decode(str) ==
    IF \E i \in 1..Len(str) : str[i] >= NotB58
    THEN [NoBuffer EXCEPT !.error = "Invalid base58 character"]
    ELSE LET num     == B58Number(str, <<>>)
             payload == IF num = <<>> THEN <<0>> ELSE num
         IN [NoBuffer EXCEPT !.ok = TRUE,
                             !.buf = Zeros(LeadingCount(str, 0)) \o payload]

MaxBufLen == 3

SampleBytes == {0, 1, 57, 58, 255}

SampleBuffers == UNION {[1..n -> SampleBytes] : n \in 0..MaxBufLen}

SampleChars == {0, 1, 57, NotB58}

SampleStrings == UNION {[1..n -> SampleChars] : n \in 0..MaxBufLen}

NoBase58Test ==
    [kind |-> "base58", pc |-> "new", buf |-> <<>>, enc |-> NoString,
     dec |-> NoBuffer, decAddr |-> NoBuffer]

InitBase58 ==
    /\ InitObjects
    /\ sdk = NoBase58Test

Base58Encode ==
    /\ sdk.kind = "base58"
    /\ sdk.pc = "new"
    /\ \E buf \in SampleBuffers :
           sdk' = [sdk EXCEPT !.pc = "encoded", !.buf = buf, !.enc = b58encode(buf)]
    /\ UNCHANGED <<ledger, view, calls, wire, coin>>

\* a string some caller supplies, not one b58encode returned
Base58Text ==
    /\ sdk.kind = "base58"
    /\ sdk.pc = "new"
    /\ \E str \in SampleStrings :
           sdk' = [sdk EXCEPT !.pc = "text", !.enc = [NoString EXCEPT !.ok = TRUE, !.str = str]]
    /\ UNCHANGED <<ledger, view, calls, wire, coin>>

Base58Decode ==
    /\ sdk.kind = "base58"
    /\ sdk.pc \in {"encoded", "text"}
    /\ sdk.enc.ok
    /\ sdk' = [sdk EXCEPT !.pc = IF sdk.pc = "encoded" THEN "roundtrip" ELSE "decoded",
                          !.dec = b58decode(sdk.enc.str),
                          !.decAddr = base58Decode(sdk.enc.str)]
    /\ UNCHANGED <<ledger, view, calls, wire, coin>>

NextBase58 == Base58Encode \/ Base58Text \/ Base58Decode

SpecBase58 == InitBase58 /\ [][NextBase58]_vars

\* --- C18 -------------------------------------------------------------------
\* C18: decode(encode(b)) = b for every byte string b, with as many leading
\* '1' characters as b has leading zero bytes, and decode fails exactly on
\* the strings holding a character outside the alphabet.
C18_Base58RoundTrip ==
    /\ (sdk.kind = "base58" /\ sdk.pc = "encoded")
           => /\ sdk.enc.ok
              /\ LeadingCount(sdk.enc.str, 0) = LeadingCount(sdk.buf, 0)
    /\ (sdk.kind = "base58" /\ sdk.pc = "roundtrip")
           => /\ sdk.dec.ok /\ sdk.dec.buf = sdk.buf
              /\ sdk.decAddr.ok /\ sdk.decAddr.buf = sdk.buf
    /\ (sdk.kind = "base58" /\ sdk.pc = "decoded")
           => LET outside == \E i \in 1..Len(sdk.enc.str) : sdk.enc.str[i] = NotB58
              IN /\ sdk.dec.ok <=> ~outside
                 /\ sdk.decAddr.ok <=> ~outside

\* ------------------------------------------------------------------------
\* RadiantAgent spending limits (part_003 95-120, 360-410).  Date.now() is a
\* clock that ticks between calls; the hour of 3600_000 ms is Hour ticks.
\* ------------------------------------------------------------------------
Hour == 2

MaxClock == 5

MaxHistory == 3

SpendAmounts == {1, 2, 4}

LimitsPerTx == {0, 3}

LimitsPerHour == {0, 5}

RECURSIVE SumAmounts(_)
\* reduce((sum, r) => sum + r.amount, 0)
SumAmounts(records) ==
    IF records = <<>> THEN 0 ELSE records[1].amount + SumAmounts(Tail(records))

\* the history with no filter on the timestamps
recentSpendingAll(history, now) == SumAmounts(history)

\* spendingHistory.filter((r) => r.timestamp > oneHourAgo).reduce(...)
recentSpending(history, now) ==
    LET oneHourAgo == now - Hour
    IN SumAmounts(SelectSeq(history, LAMBDA r : r.timestamp > oneHourAgo))

\* checkSpendLimit, lines 360-384
checkSpendLimit(config, history, now, amountPhotons) ==
    IF config.spendLimitPerTx > 0 /\ amountPhotons > config.spendLimitPerTx
    THEN [allowed |-> FALSE, reason |-> "per-transaction limit"]
    ELSE IF /\ config.spendLimitPerHour > 0
            /\ recentSpending(history, now) + amountPhotons > config.spendLimitPerHour
    THEN [allowed |-> FALSE, reason |-> "hourly limit"]
    ELSE [allowed |-> TRUE, reason |-> "none"]

NoCheck == [amount |-> 0, allowed |-> FALSE, reason |-> "unchecked"]

NoAgentTest ==
    [kind |-> "agent", pc |-> "new",
     config |-> [spendLimitPerTx |-> 0, spendLimitPerHour |-> 0],
     now |-> 0, spendingHistory |-> <<>>, check |-> NoCheck, warned |-> FALSE,
     approved |-> <<>>]

InitAgent ==
    /\ InitObjects
    /\ sdk = NoAgentTest

\* constructor, lines 115-116
AgentNew ==
    /\ sdk.kind = "agent"
    /\ sdk.pc = "new"
    /\ \E perTx \in LimitsPerTx, perHour \in LimitsPerHour :
           sdk' = [sdk EXCEPT !.pc = "ready",
                              !.config = [spendLimitPerTx |-> perTx,
                                          spendLimitPerHour |-> perHour]]
    /\ UNCHANGED <<ledger, view, calls, wire, coin>>

\* a call of checkSpendLimit; check holds what the caller was told
AgentCheckSpendLimit ==
    /\ sdk.kind = "agent"
    /\ sdk.pc \in {"ready", "checked"}
    /\ \E amountPhotons \in SpendAmounts :
           LET res == checkSpendLimit(sdk.config, sdk.spendingHistory, sdk.now, amountPhotons)
           IN sdk' = [sdk EXCEPT !.pc = "checked",
                                 !.check = [amount |-> amountPhotons,
                                            allowed |-> res.allowed,
                                            reason |-> res.reason]]
    /\ UNCHANGED <<ledger, view, calls, wire, coin>>

\* recordSpend, lines 387-410; warned is the spend-limit-warning event
AgentRecordSpend ==
    /\ sdk.kind = "agent"
    /\ sdk.pc \in {"ready", "checked"}
    /\ Len(sdk.spendingHistory) < MaxHistory
    /\ \E amountPhotons \in SpendAmounts :
           LET history == Append(sdk.spendingHistory,
                                 [timestamp |-> sdk.now, amount |-> amountPhotons])
               recent  == recentSpending(history, sdk.now)
           IN sdk' = [sdk EXCEPT !.pc = "ready", !.check = NoCheck,
                                 !.spendingHistory = history,
                                 !.warned = /\ sdk.config.spendLimitPerHour > 0
                                            /\ recent * 10 > sdk.config.spendLimitPerHour * 8]
    /\ UNCHANGED <<ledger, view, calls, wire, coin>>

\* time passes between two calls
AgentTick ==
    /\ sdk.kind = "agent"
    /\ sdk.pc \in {"ready", "checked"}
    /\ sdk.now < MaxClock
    /\ sdk' = [sdk EXCEPT !.pc = "ready", !.check = NoCheck, !.now = sdk.now + 1]
    /\ UNCHANGED <<ledger, view, calls, wire, coin>>

NextAgent == AgentNew \/ AgentCheckSpendLimit \/ AgentRecordSpend \/ AgentTick

SpecAgent == InitAgent /\ [][NextAgent]_vars

\* --- C19 -------------------------------------------------------------------
\* the amounts recorded less than an hour before now
SpentWithinHour ==
    LET idx == {i \in 1..Len(sdk.spendingHistory) :
                   sdk.now - sdk.spendingHistory[i].timestamp < Hour}
        f[S \in SUBSET idx] ==
            IF S = {} THEN 0
            ELSE LET i == CHOOSE j \in S : TRUE
                 IN sdk.spendingHistory[i].amount + f[S \ {i}]
    IN f[idx]

OverLimit(a) ==
    \/ sdk.config.spendLimitPerTx > 0 /\ a > sdk.config.spendLimitPerTx
    \/ sdk.config.spendLimitPerHour > 0 /\ a + SpentWithinHour > sdk.config.spendLimitPerHour

\* C19: checkSpendLimit(a) answers allowed = false exactly when a exceeds a
\* positive per-transaction limit or a plus the amounts recorded within the
\* last hour exceeds a positive hourly limit; a limit of 0 never refuses,
\* older records do not count, and the call leaves the history as it was.
C19_SpendLimit ==
    /\ [](sdk.kind = "agent" /\ sdk.pc = "checked"
              => (sdk.check.allowed <=> ~OverLimit(sdk.check.amount)))
    /\ [][sdk'.pc = "checked" => sdk'.spendingHistory = sdk.spendingHistory]_vars

\* a spend is allowed although the whole history plus the amount exceeds the
\* hourly limit: a record older than one hour was left out
C19_Witness ==
    /\ sdk.kind = "agent"
    /\ sdk.pc = "checked"
    /\ sdk.check.allowed
    /\ sdk.config.spendLimitPerHour > 0
    /\ SumAmounts(sdk.spendingHistory) + sdk.check.amount > sdk.config.spendLimitPerHour

\* ------------------------------------------------------------------------
\* Micropayment channels (part_000 262-312).  ChannelState objects live in a
\* heap, so that a call which wrote into the object it was given would show.
\* The blake3 digest of the commitment is outside the repository; the
\* commitment is kept as the three numbers it is computed from.
\* ------------------------------------------------------------------------
MaxCapacity == 3

MaxChannelStates == 4

Capacities == (0 - 1) .. MaxCapacity

PaymentAmounts == (0 - 1) .. MaxCapacity

\* computeChannelCommitment, lines 306-312
computeChannelCommitment(state) == <<state.balanceA, state.balanceB, state.nonce>>

\* openChannel, lines 262-282
openChannel(capacity) ==
    LET state == [capacity |-> capacity, balanceA |-> capacity, balanceB |-> 0,
                  nonce |-> 0, stateCommitment |-> <<>>]
    IN [state EXCEPT !.stateCommitment = computeChannelCommitment(state)]

NoChannelUpdate == [ok |-> FALSE, error |-> "none", heap |-> <<>>, ref |-> 0]

\* updateChannel, lines 288-300, on the object heap[ref]: the new state is a
\* new object at the end of the heap
updateChannel(heap, ref, amount) ==
    LET state == heap[ref]
    IN IF amount <= 0
       THEN [NoChannelUpdate EXCEPT !.error = "Payment amount must be positive", !.heap = heap]
       ELSE IF amount > state.balanceA
       THEN [NoChannelUpdate EXCEPT !.error = "Insufficient balance", !.heap = heap]
       ELSE LET newState == [state EXCEPT !.balanceA = state.balanceA - amount,
                                          !.balanceB = state.balanceB + amount,
                                          !.nonce = state.nonce + 1]
            IN [NoChannelUpdate EXCEPT
                   !.ok = TRUE,
                   !.heap = Append(heap, [newState EXCEPT !.stateCommitment =
                                                       computeChannelCommitment(newState)]),
                   !.ref = Len(heap) + 1]

\* heap: the ChannelState objects made so far; updates[r]: how many
\* successful updates led from the opened state to heap[r]; last: the latest
\* updateChannel call
NoChannelTest ==
    [kind |-> "channel", pc |-> "new", heap |-> <<>>, updates |-> <<>>,
     last |-> [ref |-> 0, amount |-> 0, ok |-> FALSE, error |-> "none"]]

InitChannel ==
    /\ InitObjects
    /\ sdk = NoChannelTest

ChannelOpen ==
    /\ sdk.kind = "channel"
    /\ sdk.pc = "new"
    /\ \E capacity \in Capacities :
           sdk' = [sdk EXCEPT !.pc = "open", !.heap = <<openChannel(capacity)>>,
                              !.updates = <<0>>]
    /\ UNCHANGED <<ledger, view, calls, wire, coin>>

\* updateChannel on any state object the caller holds
ChannelUpdate ==
    /\ sdk.kind = "channel"
    /\ sdk.pc = "open"
    /\ Len(sdk.heap) < MaxChannelStates
    /\ \E ref \in 1..Len(sdk.heap), amount \in PaymentAmounts :
           LET res == updateChannel(sdk.heap, ref, amount)
           IN sdk' = [sdk EXCEPT
                         !.heap = res.heap,
                         !.updates = IF res.ok THEN Append(@, sdk.updates[ref] + 1) ELSE @,
                         !.last = [ref |-> ref, amount |-> amount, ok |-> res.ok,
                                   error |-> res.error]]
    /\ UNCHANGED <<ledger, view, calls, wire, coin>>

NextChannel == ChannelOpen \/ ChannelUpdate

SpecChannel == InitChannel /\ [][NextChannel]_vars

\* --- C20 -------------------------------------------------------------------
\* C20: the opened state has balanceA = capacity, balanceB = 0, nonce = 0;
\* every state reached by updates has balanceA + balanceB = capacity, both
\* balances non-negative and nonce equal to the number of successful updates
\* behind it; an update with amount <= 0 or amount > balanceA throws; and no
\* update changes a state object that already exists.
C20_ChannelInvariant ==
    /\ [](sdk.kind = "channel" /\ sdk.pc = "open"
              => /\ sdk.heap[1].balanceA = sdk.heap[1].capacity
                 /\ sdk.heap[1].balanceB = 0
                 /\ sdk.heap[1].nonce = 0
                 /\ \A r \in 1..Len(sdk.heap) :
                       /\ sdk.heap[r].balanceA + sdk.heap[r].balanceB = sdk.heap[r].capacity
                       /\ sdk.heap[r].capacity = sdk.heap[1].capacity
                       /\ sdk.heap[r].balanceA >= 0
                       /\ sdk.heap[r].balanceB >= 0
                       /\ sdk.heap[r].nonce = sdk.updates[r]
                 /\ sdk.last.ref # 0 =>
                       (~sdk.last.ok <=> \/ sdk.last.amount <= 0
                                         \/ sdk.last.amount > sdk.heap[sdk.last.ref].balanceA))
    /\ [][sdk.kind = "channel" /\ sdk.pc = "open"
              => \A r \in 1..Len(sdk.heap) : sdk'.heap[r] = sdk.heap[r]]_vars

\* ------------------------------------------------------------------------
\* estimateTxFee (tx-builder.ts 687-697).  An optional parameter is a
\* sequence: empty when omitted, else holding the value.
\* ------------------------------------------------------------------------
Photons == 100000000

\* estimateTxFee charging the default rate whatever the caller asked
estimateTxFeeDefaultRate(params) ==
    LET estimatedBytes == estimateTxSize(params.inputCount, params.outputCount,
                                         IF params.opReturnSizes = <<>> THEN <<>>
                                         ELSE params.opReturnSizes[1])
    IN [estimatedBytes |-> estimatedBytes, feePerByte |-> FEE_PER_BYTE,
        feeSatoshis |-> estimatedBytes * FEE_PER_BYTE,
        feeRxd |-> <<(estimatedBytes * FEE_PER_BYTE) \div Photons,
                     (estimatedBytes * FEE_PER_BYTE) % Photons>>]

\* feeRxd, (feeSatoshis / 1e8).toFixed(8), is kept as whole RXD and the
\* eight decimals
estimateTxFee(params) ==
    LET feePerByte     == IF params.feePerByte = <<>> THEN FEE_PER_BYTE
                          ELSE params.feePerByte[1]
        estimatedBytes == estimateTxSize(params.inputCount, params.outputCount,
                                         IF params.opReturnSizes = <<>> THEN <<>>
                                         ELSE params.opReturnSizes[1])
        feeSatoshis    == estimatedBytes * feePerByte
    IN [estimatedBytes |-> estimatedBytes, feePerByte |-> feePerByte,
        feeSatoshis |-> feeSatoshis,
        feeRxd |-> <<feeSatoshis \div Photons, feeSatoshis % Photons>>]

FeeInputCounts == 0..4

FeeOutputCounts == 0..3

FeeOpReturnSizes == {<<>>, <<<<>>>>, <<<<80>>>>, <<<<0>>>>, <<<<80, 20>>>>}

FeeRates == {<<>>, <<1>>, <<2>>, <<5>>}

NoFee == [estimatedBytes |-> 0, feePerByte |-> 0, feeSatoshis |-> 0, feeRxd |-> <<0, 0>>]

NoFeeTest ==
    [kind |-> "fee", pc |-> "new",
     params |-> [inputCount |-> 0, outputCount |-> 0, opReturnSizes |-> <<>>,
                 feePerByte |-> <<>>],
     r1 |-> NoFee, rate2 |-> <<>>, r2 |-> NoFee]

InitFee ==
    /\ InitObjects
    /\ sdk = NoFeeTest

FeeEstimate ==
    /\ sdk.kind = "fee"
    /\ sdk.pc = "new"
    /\ \E i \in FeeInputCounts, o \in FeeOutputCounts, s \in FeeOpReturnSizes, f \in FeeRates :
           LET params == [inputCount |-> i, outputCount |-> o, opReturnSizes |-> s,
                          feePerByte |-> f]
           IN sdk' = [sdk EXCEPT !.pc = "one", !.params = params, !.r1 = estimateTxFee(params)]
    /\ UNCHANGED <<ledger, view, calls, wire, coin>>

\* a second estimate for the same counts at another rate
FeeEstimateAgain ==
    /\ sdk.kind = "fee"
    /\ sdk.pc = "one"
    /\ \E f \in FeeRates :
           sdk' = [sdk EXCEPT !.pc = "two", !.rate2 = f,
                              !.r2 = estimateTxFee([sdk.params EXCEPT !.feePerByte = f])]
    /\ UNCHANGED <<ledger, view, calls, wire, coin>>

NextFee == FeeEstimate \/ FeeEstimateAgain

SpecFee == InitFee /\ [][NextFee]_vars

\* --- C21 -------------------------------------------------------------------
\* the size the claim states: overhead, the inputs, the outputs and each
\* OP_RETURN with its own overhead
StatedSize(params) ==
    LET sizes == IF params.opReturnSizes = <<>> THEN <<>> ELSE params.opReturnSizes[1]
        payload[n \in 0..Len(sizes)] == IF n = 0 THEN 0 ELSE payload[n - 1] + sizes[n]
    IN TX_OVERHEAD + params.inputCount * P2PKH_INPUT_SIZE
                   + params.outputCount * P2PKH_OUTPUT_SIZE
                   + Len(sizes) * OP_RETURN_OVERHEAD + payload[Len(sizes)]

RateOf(f) == IF f = <<>> THEN 1 ELSE f[1]

\* C21: feeSatoshis is the estimated size times feePerByte, the size being
\* overhead + inputs + outputs + OP_RETURNs; for the same counts the fee at
\* feePerByte = 5 is five times the fee at feePerByte = 1.
C21_FeeLinear ==
    /\ (sdk.kind = "fee" /\ sdk.pc # "new")
           => /\ sdk.r1.estimatedBytes = StatedSize(sdk.params)
              /\ sdk.r1.feeSatoshis = StatedSize(sdk.params) * RateOf(sdk.params.feePerByte)
    /\ (sdk.kind = "fee" /\ sdk.pc = "two")
           => /\ sdk.r2.feeSatoshis = StatedSize(sdk.params) * RateOf(sdk.rate2)
              /\ (RateOf(sdk.params.feePerByte) = 1 /\ sdk.rate2 = <<5>>)
                     => sdk.r2.feeSatoshis = 5 * sdk.r1.feeSatoshis

\* the test's case: 1 input, 2 outputs, default rate then rate 5
C21_Witness ==
    /\ sdk.kind = "fee"
    /\ sdk.pc = "two"
    /\ sdk.params.inputCount = 1
    /\ sdk.params.outputCount = 2
    /\ sdk.params.feePerByte = <<>>
    /\ sdk.rate2 = <<5>>
    /\ sdk.r1.feeSatoshis = 226
    /\ sdk.r2.feeSatoshis = 1130

\* --- C22 -------------------------------------------------------------------
\* the UTXO queries a mint has issued after its commit broadcast
QueriesAfterCommit(c) == {i \in 3..Len(wire[c]) : wire[c][i].method = "listUnspent"}

SpentByCommit(c, u) ==
    \E i \in 1..Len(calls[c].commitResult.rawTx.ins) :
        Outpoint(calls[c].commitResult.rawTx.ins[i]) = Outpoint(u)

C23_TransferInputsCoverAmount ==
    \A c \in Calls :
        TransferBuilt(c) =>
            SumValues(calls[c].built.rawTx.ins)
                >= calls[c].p.amount
                     + (TX_OVERHEAD + 2 * P2PKH_INPUT_SIZE + 2 * P2PKH_OUTPUT_SIZE)
                         * calls[c].p.feePerByte

\* ------------------------------------------------------------------------
\* ElectrumxClient (electrumx.ts 22-167).  socks lists the sockets the client
\* has created: state is what the network has made of the socket, listeners
\* whether the client's handlers are still attached, promise the state of the
\* Promise its connect() call returned.  reqs are the request() calls made;
\* pending and timers hold the ids in the pending map and the ids whose
\* timer is armed.  A chunk handed to onData is one complete line.
\* ------------------------------------------------------------------------
MaxRequests == 2

MaxSockets == 2

Reqs == 1..MaxRequests

NoReq ==
    [pc |-> "idle", conn |-> 0, id |-> 0, wsock |-> 0, write |-> "none",
     outcome |-> "none", cause |-> "none"]

NoClientTest ==
    [kind |-> "client", connected |-> FALSE, socket |-> 0, socks |-> <<>>,
     requestId |-> 0, pending |-> {}, timers |-> {},
     reqs |-> [r \in Reqs |-> NoReq],
     last |-> [line |-> FALSE, id |-> 0, known |-> FALSE]]

NoLine == NoClientTest.last

InitClient ==
    /\ InitObjects
    /\ sdk = NoClientTest

\* resolve or reject of the Promise request() returned: only the first call
\* settles it
Settle(rs, r, outcome, cause) ==
    IF rs[r].outcome = "none"
    THEN [rs EXCEPT ![r].outcome = outcome, ![r].cause = cause]
    ELSE rs

\* the requests whose Promise holds the pending entry id
Holder(rs, id) == {r \in Reqs : rs[r].id = id}

RECURSIVE SettleAll(_, _, _, _)
SettleAll(rs, ids, outcome, cause) ==
    IF ids = {} THEN rs
    ELSE LET id == CHOOSE i \in ids : TRUE
             r  == CHOOSE x \in Holder(rs, id) : TRUE
         IN SettleAll(Settle(rs, r, outcome, cause), ids \ {id}, outcome, cause)

\* connect(), lines 42-76, when not connected: a new socket, stored in
\* this.socket, with the handlers attached
OpenSocket(c) ==
    [c EXCEPT !.socks = Append(@, [state |-> "connecting", listeners |-> TRUE,
                                   promise |-> "pending"]),
              !.socket = Len(c.socks) + 1]

\* request(), lines 106-128: the id, the timer, the pending entry and the
\* write; the executor throws when this.socket is null, which rejects the
\* Promise after the entry was made
SendRequest(c, r) ==
    LET id  == c.requestId + 1
        reg == [c EXCEPT !.requestId = id, !.pending = @ \cup {id},
                         !.timers = @ \cup {id},
                         !.reqs[r].pc = "registered", !.reqs[r].id = id]
    IN IF c.socket = 0
       THEN [reg EXCEPT !.reqs[r].outcome = "rejected", !.reqs[r].cause = "TypeError"]
       ELSE [reg EXCEPT !.reqs[r].wsock = c.socket, !.reqs[r].write = "queued"]

\* a call of request(), up to its first await or, when connected, to the write
ClientRequest(r) ==
    /\ sdk.kind = "client"
    /\ sdk.reqs[r].pc = "idle"
    /\ \A q \in Reqs : q < r => sdk.reqs[q].pc # "idle"
    /\ IF ~sdk.connected \/ sdk.socket = 0
       THEN /\ Len(sdk.socks) < MaxSockets
            /\ sdk' = [OpenSocket(sdk) EXCEPT !.reqs[r].pc = "connecting",
                                               !.reqs[r].conn = Len(sdk.socks) + 1,
                                               !.last = NoLine]
       ELSE sdk' = [SendRequest(sdk, r) EXCEPT !.last = NoLine]
    /\ UNCHANGED <<ledger, view, calls, wire, coin>>

\* a call of connect() by the owner of the client
ClientConnect ==
    /\ sdk.kind = "client"
    /\ ~sdk.connected
    /\ Len(sdk.socks) < MaxSockets
    /\ sdk' = [OpenSocket(sdk) EXCEPT !.last = NoLine]
    /\ UNCHANGED <<ledger, view, calls, wire, coin>>

\* the socket connects: onConnect (43-48), then the request awaiting this
\* connect() goes on
SocketConnect(s) ==
    /\ sdk.kind = "client"
    /\ s \in 1..Len(sdk.socks)
    /\ sdk.socks[s].state = "connecting"
    /\ sdk.socks[s].listeners
    /\ LET c0 == [sdk EXCEPT !.connected = TRUE, !.socks[s].state = "open",
                             !.socks[s].promise = "resolved", !.last = NoLine]
           w  == {r \in Reqs : sdk.reqs[r].pc = "connecting" /\ sdk.reqs[r].conn = s}
       IN sdk' = IF w = {} THEN c0 ELSE SendRequest(c0, CHOOSE r \in w : TRUE)
    /\ UNCHANGED <<ledger, view, calls, wire, coin>>

\* the socket fails: onError (50-53), which rejects connect() when that is
\* still pending, and onClose (164-167)
SocketError(s) ==
    /\ sdk.kind = "client"
    /\ s \in 1..Len(sdk.socks)
    /\ sdk.socks[s].state \in {"connecting", "open"}
    /\ sdk.socks[s].listeners
    /\ LET w == {r \in Reqs : sdk.reqs[r].pc = "connecting" /\ sdk.reqs[r].conn = s}
       IN sdk' = [sdk EXCEPT
                     !.connected = FALSE, !.socks[s].state = "closed",
                     !.socks[s].promise = IF @ = "pending" THEN "rejected" ELSE @,
                     !.reqs = IF w = {} THEN @
                              ELSE LET r == CHOOSE x \in w : TRUE
                                   IN [Settle(@, r, "rejected", "connect error")
                                          EXCEPT ![r].pc = "failed"],
                     !.last = NoLine]
    /\ UNCHANGED <<ledger, view, calls, wire, coin>>

\* the server closes an open socket: onClose (164-167)
SocketClose(s) ==
    /\ sdk.kind = "client"
    /\ s \in 1..Len(sdk.socks)
    /\ sdk.socks[s].state = "open"
    /\ sdk.socks[s].listeners
    /\ sdk' = [sdk EXCEPT !.connected = FALSE, !.socks[s].state = "closed",
                          !.last = NoLine]
    /\ UNCHANGED <<ledger, view, calls, wire, coin>>

\* the callback of socket.write (120-126): no error once the socket is open,
\* an error once it is closed
WriteCallback(r) ==
    /\ sdk.kind = "client"
    /\ sdk.reqs[r].write = "queued"
    /\ LET id == sdk.reqs[r].id IN
       \/ /\ sdk.socks[sdk.reqs[r].wsock].state = "open"
          /\ sdk' = [sdk EXCEPT !.reqs[r].write = "ok", !.last = NoLine]
       \/ /\ sdk.socks[sdk.reqs[r].wsock].state = "closed"
          /\ sdk' = [sdk EXCEPT !.timers = @ \ {id}, !.pending = @ \ {id},
                                !.reqs = [Settle(@, r, "rejected", "write error")
                                             EXCEPT ![r].write = "err"],
                                !.last = NoLine]
    /\ UNCHANGED <<ledger, view, calls, wire, coin>>

\* the timer of lines 110-113 fires
Timeout(id) ==
    /\ sdk.kind = "client"
    /\ id \in sdk.timers
    /\ sdk' = [sdk EXCEPT !.timers = @ \ {id}, !.pending = @ \ {id},
                          !.reqs = SettleAll(@, {id}, "rejected", "timeout"),
                          !.last = NoLine]
    /\ UNCHANGED <<ledger, view, calls, wire, coin>>

\* onData (131-162) for one line carrying this id, with or without an error
OnData(s, id, error) ==
    /\ sdk.kind = "client"
    /\ s \in 1..Len(sdk.socks)
    /\ sdk.socks[s].state = "open"
    /\ sdk.socks[s].listeners
    /\ IF id \in sdk.pending
       THEN sdk' = [sdk EXCEPT !.timers = @ \ {id}, !.pending = @ \ {id},
                               !.reqs = IF error
                                        THEN SettleAll(@, {id}, "rejected", "error response")
                                        ELSE SettleAll(@, {id}, "resolved", "response"),
                               !.last = [line |-> TRUE, id |-> id, known |-> TRUE]]
       ELSE sdk' = [sdk EXCEPT !.last = [line |-> TRUE, id |-> id, known |-> FALSE]]
    /\ UNCHANGED <<ledger, view, calls, wire, coin>>

\* disconnect(), lines 79-92
ClientDisconnect ==
    /\ sdk.kind = "client"
    /\ sdk.socks # <<>>
    /\ LET c0 == [sdk EXCEPT !.connected = FALSE, !.timers = @ \ sdk.pending,
                             !.reqs = SettleAll(@, sdk.pending, "rejected", "disconnect"),
                             !.pending = {}, !.last = NoLine]
       IN sdk' = IF sdk.socket = 0 THEN c0
                 ELSE [c0 EXCEPT !.socks[sdk.socket].listeners = FALSE,
                                 !.socks[sdk.socket].state = "closed",
                                 !.socket = 0]
    /\ UNCHANGED <<ledger, view, calls, wire, coin>>

NextClient ==
    \/ \E r \in Reqs : ClientRequest(r)
    \/ ClientConnect
    \/ \E s \in 1..MaxSockets : SocketConnect(s)
    \/ \E s \in 1..MaxSockets : SocketError(s)
    \/ \E s \in 1..MaxSockets : SocketClose(s)
    \/ \E r \in Reqs : WriteCallback(r)
    \/ \E id \in Reqs : Timeout(id)
    \/ \E s \in 1..MaxSockets, id \in 1..(MaxRequests + 1), error \in BOOLEAN : OnData(s, id, error)
    \/ ClientDisconnect

SpecClient == InitClient /\ [][NextClient]_vars

\* --- C24 -------------------------------------------------------------------
ListedCauses == {"response", "error response", "timeout", "write error", "disconnect"}

\* C24: a request that was registered is settled at most once, by the
\* response or the error response with its id, its timeout, a write error or
\* disconnect(); in that step its id leaves the pending map and its timer is
\* no longer armed; a line whose id is not pending settles nothing and
\* leaves the pending map and the timers as they are.
C24_SettledOnceByOneCause ==
    /\ [][sdk.kind = "client" =>
            \A r \in Reqs :
               /\ (sdk.reqs[r].outcome = "none" /\ sdk'.reqs[r].outcome # "none"
                       /\ sdk'.reqs[r].id # 0)
                     => /\ sdk'.reqs[r].cause \in ListedCauses
                        /\ sdk'.reqs[r].id \notin sdk'.pending
                        /\ sdk'.reqs[r].id \notin sdk'.timers
               /\ sdk.reqs[r].outcome # "none"
                     => /\ sdk'.reqs[r].outcome = sdk.reqs[r].outcome
                        /\ sdk'.reqs[r].cause = sdk.reqs[r].cause]_vars
    /\ [][(sdk.kind = "client" /\ sdk'.last.line /\ ~sdk'.last.known)
            => /\ sdk'.reqs = sdk.reqs
               /\ sdk'.pending = sdk.pending
               /\ sdk'.timers = sdk.timers]_vars

\* --- C25 -------------------------------------------------------------------
\* an armed timer fires, a socket that still has its handlers connects or
\* fails, and a queued write is called back
FairClient ==
    /\ \A id \in Reqs : WF_vars(Timeout(id))
    /\ \A s \in 1..MaxSockets : WF_vars(SocketConnect(s) \/ SocketError(s))
    /\ \A r \in Reqs : WF_vars(WriteCallback(r))

SpecClientLive == SpecClient /\ FairClient

\* C25: every call of request() eventually resolves or rejects, whatever the
\* server, the socket and disconnect() do meanwhile.
C25_RequestsSettle ==
    \A r \in Reqs :
        (sdk.kind = "client" /\ sdk.reqs[r].pc # "idle") ~> (sdk.reqs[r].outcome # "none")

\* --- C27 -------------------------------------------------------------------
LiveSockets == {s \in 1..Len(sdk.socks) : sdk.socks[s].state \in {"connecting", "open"}}

\* C27: request() and connect() calls made while the client is disconnected
\* open at most one socket: no two sockets are live at once, and this.socket
\* is not replaced by a new socket while the one it holds is still connecting.
C27_OneSocket ==
    /\ [](sdk.kind = "client" => Cardinality(LiveSockets) <= 1)
    /\ [][(/\ sdk.kind = "client"
            /\ sdk.socket # 0
            /\ sdk.socks[sdk.socket].state = "connecting")
           => sdk'.socket \in {sdk.socket, 0}]_vars

\* ------------------------------------------------------------------------
\* Spends made under the limits: a caller asks checkSpendLimit, and when the
\* answer is allowed it broadcasts and then calls recordSpend.  approved
\* holds the amounts allowed and not yet recorded.
\* ------------------------------------------------------------------------
MaxApproved == 2

SpendCheck ==
    /\ sdk.kind = "agent"
    /\ sdk.pc \in {"ready", "checked"}
    /\ Len(sdk.approved) < MaxApproved
    /\ Len(sdk.spendingHistory) + Len(sdk.approved) < MaxHistory
    /\ \E amountPhotons \in SpendAmounts :
           LET res == checkSpendLimit(sdk.config, sdk.spendingHistory, sdk.now, amountPhotons)
           IN sdk' = [sdk EXCEPT !.pc = "checked",
                                 !.check = [amount |-> amountPhotons,
                                            allowed |-> res.allowed,
                                            reason |-> res.reason],
                                 !.approved = IF res.allowed THEN Append(@, amountPhotons)
                                              ELSE @]
    /\ UNCHANGED <<ledger, view, calls, wire, coin>>

\* recordSpend (387-410) for a spend that was allowed
SpendRecord ==
    /\ sdk.kind = "agent"
    /\ sdk.pc \in {"ready", "checked"}
    /\ \E i \in 1..Len(sdk.approved) :
           LET history == Append(sdk.spendingHistory,
                                 [timestamp |-> sdk.now, amount |-> sdk.approved[i]])
               recent  == recentSpending(history, sdk.now)
           IN sdk' = [sdk EXCEPT
                         !.pc = "ready", !.check = NoCheck,
                         !.spendingHistory = history,
                         !.approved = SubSeq(@, 1, i - 1) \o SubSeq(@, i + 1, Len(@)),
                         !.warned = /\ sdk.config.spendLimitPerHour > 0
                                    /\ recent * 10 > sdk.config.spendLimitPerHour * 8]
    /\ UNCHANGED <<ledger, view, calls, wire, coin>>

NextSpend == AgentNew \/ SpendCheck \/ SpendRecord \/ AgentTick

SpecSpend == InitAgent /\ [][NextSpend]_vars

\* --- C26 -------------------------------------------------------------------
\* the amounts recorded in the hour that ends at time t
RecordedInWindow(t) ==
    SumAmounts(SelectSeq(sdk.spendingHistory,
                         LAMBDA r : r.timestamp > t - Hour /\ r.timestamp <= t))

\* C26: with a positive hourly limit, when every recorded spend was allowed
\* by checkSpendLimit beforehand, the amounts recorded within any one hour
\* never add up to more than spendLimitPerHour, also when several spends are
\* checked before any of them is recorded.
C26_HourlyLimitHolds ==
    (sdk.kind = "agent" /\ sdk.config.spendLimitPerHour > 0)
        => \A t \in 0..MaxClock : RecordedInWindow(t) <= sdk.config.spendLimitPerHour

\* ------------------------------------------------------------------------
\* decodeScript (script-decode.ts 122-214).  The hex string is given by the
\* bytes Buffer.from(hex, "hex") makes of it; one step is one iteration of
\* the while loop of line 136; ops keeps offset, opcode and dataLength of
\* each decoded op (dataLength NoData where the op has no data).
\* ------------------------------------------------------------------------
MaxScriptLen == 5

MaxOps == 4

NoData == 0 - 1

REF_OPCODES == {208, 209, 210, 211, 216}

ScriptBytes == {1, 2, 76, 77, 78, 208, 251, 255}

Scripts == UNION {[1..n -> ScriptBytes] : n \in 0..MaxScriptLen}

\* a | (b << 8) | (c << 16) | (d << 24): a signed 32-bit integer
Int32LE(a, b, c, d) ==
    a + b * 256 + c * 65536 + (IF d >= 128 THEN d - 256 ELSE d) * 16777216

\* buf.subarray(start, end).length for start >= 0, a negative end counting
\* from the end of the buffer
SubarrayLength(buf, start, end) ==
    LET e0 == IF end < 0 THEN Len(buf) + end ELSE end
        e  == IF e0 < 0 THEN 0 ELSE IF e0 > Len(buf) THEN Len(buf) ELSE e0
        b  == IF start > Len(buf) THEN Len(buf) ELSE start
    IN IF e > b THEN e - b ELSE 0

NoDecodeTest ==
    [kind |-> "decode", pc |-> "new", bytes |-> <<>>, i |-> 0, ops |-> <<>>,
     error |-> "none"]

InitDecode ==
    /\ InitObjects
    /\ sdk = NoDecodeTest

\* lines 123-134, for a string that passes the two tests
DecodeStart ==
    /\ sdk.kind = "decode"
    /\ sdk.pc = "new"
    /\ \E bytes \in Scripts : sdk' = [sdk EXCEPT !.pc = "loop", !.bytes = bytes]
    /\ UNCHANGED <<ledger, view, calls, wire, coin>>

Op(offset, opcode, dataLength, dataBytes) ==
    [offset |-> offset, opcode |-> opcode, dataLength |-> dataLength, dataBytes |-> dataBytes]

\* the body of the loop, lines 137-189, from read position i; bytes[i] is
\* undefined for a negative i, and undefined.toString(16) throws
LoopBody(bytes, i) ==
    LET n       == Len(bytes)
        at(k)   == bytes[k + 1]
        byte    == at(i)
        j       == i + 1
    IN IF i < 0 THEN [i |-> i + 1, op |-> Op(i, "none", NoData, 0), error |-> "TypeError"]
       ELSE IF byte >= 1 /\ byte <= 75
       THEN [i |-> j + byte, error |-> "none",
             op |-> Op(i, "push", byte, SubarrayLength(bytes, j, j + byte))]
       ELSE IF byte = 76 /\ j < n
       THEN LET len == at(j)
            IN [i |-> j + 1 + len, error |-> "none",
                op |-> Op(i, "OP_PUSHDATA1", len, SubarrayLength(bytes, j + 1, j + 1 + len))]
       ELSE IF byte = 77 /\ j + 1 < n
       THEN LET len == at(j) + at(j + 1) * 256
            IN [i |-> j + 2 + len, error |-> "none",
                op |-> Op(i, "OP_PUSHDATA2", len, SubarrayLength(bytes, j + 2, j + 2 + len))]
       ELSE IF byte = 78 /\ j + 3 < n
       THEN LET len == Int32LE(at(j), at(j + 1), at(j + 2), at(j + 3))
            IN [i |-> j + 4 + len, error |-> "none",
                op |-> Op(i, "OP_PUSHDATA4", len, SubarrayLength(bytes, j + 4, j + 4 + len))]
       ELSE IF byte \in REF_OPCODES
       THEN [i |-> j + 36, error |-> "none",
             op |-> Op(i, "ref", 36, SubarrayLength(bytes, j, j + 36))]
       ELSE [i |-> j, error |-> "none", op |-> Op(i, "op", NoData, 0)]

\* one iteration of the loop
DecodeStep ==
    /\ sdk.kind = "decode"
    /\ sdk.pc = "loop"
    /\ sdk.i < Len(sdk.bytes)
    /\ Len(sdk.ops) < MaxOps
    /\ LET b == LoopBody(sdk.bytes, sdk.i)
       IN sdk' = IF b.error # "none"
                 THEN [sdk EXCEPT !.pc = "failed", !.i = b.i, !.error = b.error]
                 ELSE [sdk EXCEPT !.i = b.i, !.ops = Append(@, b.op)]
    /\ UNCHANGED <<ledger, view, calls, wire, coin>>

\* the loop ends and the result is returned, lines 192-213
DecodeReturn ==
    /\ sdk.kind = "decode"
    /\ sdk.pc = "loop"
    /\ sdk.i >= Len(sdk.bytes)
    /\ sdk' = [sdk EXCEPT !.pc = "done"]
    /\ UNCHANGED <<ledger, view, calls, wire, coin>>

NextDecode == DecodeStart \/ DecodeStep \/ DecodeReturn

SpecDecode == InitDecode /\ [][NextDecode]_vars

\* --- C28 -------------------------------------------------------------------
\* C28: the read position of decodeScript grows in every iteration of its
\* loop, whatever the length field of a push says, and the offsets of the
\* ops it lists are strictly increasing.
C28_ReadPositionGrows ==
    /\ [][(sdk.kind = "decode" /\ sdk.pc = "loop" /\ sdk'.pc # "done")
            => sdk'.i > sdk.i]_vars
    /\ [](sdk.kind = "decode"
            => \A m, n \in 1..Len(sdk.ops) :
                   m < n => sdk.ops[m].offset < sdk.ops[n].offset)

\* ------------------------------------------------------------------------
\* Addresses (address.ts 40-109, part_003 432-436).  The decoded address is
\* version, hash and checksum: 1 + HashLen + ChecksumLen bytes (25 in the
\* source).
\* ------------------------------------------------------------------------
AddressLen == 1 + HashLen + ChecksumLen

NoAddress == [ok |-> FALSE, error |-> "none", version |-> 0, hash |-> <<>>]

\* decodeAddress, lines 40-60
decodeAddress(address) ==
    LET d == base58Decode(address)
    IN IF ~d.ok THEN [NoAddress EXCEPT !.error = d.error]
       ELSE IF Len(d.buf) # AddressLen
       THEN [NoAddress EXCEPT !.error = "Invalid address length"]
       ELSE LET payload  == Subarray(d.buf, 0, 1 + HashLen)
                checksum == Subarray(d.buf, 1 + HashLen, AddressLen)
            IN IF sha256d4(payload) # checksum
               THEN [NoAddress EXCEPT !.error = "Invalid address checksum"]
               ELSE [NoAddress EXCEPT !.ok = TRUE, !.version = d.buf[1],
                                      !.hash = Subarray(d.buf, 1, 1 + HashLen)]

\* isValidAddress, lines 102-109
isValidAddress(address) == decodeAddress(address).ok

\* buildScriptPubKey, lines 66-86
buildScriptPubKey(address) ==
    LET a == decodeAddress(address)
    IN IF ~a.ok THEN [NoBuffer EXCEPT !.error = a.error]
       ELSE IF a.version = 0
       THEN [NoBuffer EXCEPT !.ok = TRUE, !.buf = <<118, 169, 20>> \o a.hash \o <<136, 172>>]
       ELSE IF a.version = 5
       THEN [NoBuffer EXCEPT !.ok = TRUE, !.buf = <<169, 20>> \o a.hash \o <<135>>]
       ELSE [NoBuffer EXCEPT !.error = "Unsupported address version"]

\* addressToScripthash, lines 92-97: the digest of the script, reversed
addressToScripthash(address) ==
    LET script == buildScriptPubKey(address)
    IN IF ~script.ok THEN script
       ELSE [script EXCEPT !.buf = <<Digest(script.buf, 5), Digest(script.buf, 3)>>]

AddressVersions == {0, 5, 111, 196}

AddressHashes == {<<h>> : h \in 0..15}

\* the addresses of those versions and hashes, the same with a character
\* changed or dropped, and a string with a character outside the alphabet
AddressStrings ==
    LET good == {b58check(v, h).str : v \in AddressVersions, h \in AddressHashes}
    IN good \cup {[a EXCEPT ![Len(a)] = (@ + 1) % 58] : a \in good}
            \cup {SubSeq(a, 1, Len(a) - 1) : a \in good}
            \cup {<<NotB58>>}

NoAddressTest ==
    [kind |-> "address", pc |-> "new", address |-> <<>>, valid |-> FALSE,
     sh |-> NoBuffer, error |-> "none"]

InitAddress ==
    /\ InitObjects
    /\ sdk = NoAddressTest

\* RadiantAgent.watchAddress, part_003 432-436
WatchAddress ==
    /\ sdk.kind = "address"
    /\ sdk.pc = "new"
    /\ \E address \in AddressStrings :
           LET valid == isValidAddress(address)
               sh    == addressToScripthash(address)
           IN sdk' = [sdk EXCEPT
                         !.pc = "watched", !.address = address, !.valid = valid,
                         !.sh = IF valid THEN sh ELSE NoBuffer,
                         !.error = IF ~valid THEN "Invalid address"
                                   ELSE IF ~sh.ok THEN sh.error ELSE "none"]
    /\ UNCHANGED <<ledger, view, calls, wire, coin>>

NextAddress == WatchAddress

SpecAddress == InitAddress /\ [][NextAddress]_vars

\* --- C29 -------------------------------------------------------------------
\* C29: for an address isValidAddress accepts, addressToScripthash returns a
\* scripthash, so watchAddress does not throw once validation has passed.
C29_ValidAddressConverts ==
    (sdk.kind = "address" /\ sdk.pc = "watched" /\ sdk.valid)
        => (sdk.sh.ok /\ sdk.error = "none")

====
